---- MODULE Spec2Model ----
(***************************************************************************)
(* Model of the browse handler of the HTTP media server (server.go) and of *)
(* Config.IsValidMediaPath (config.go).                                    *)
(*                                                                         *)
(* A Go string is a sequence of one-character strings, so that decoding,  *)
(* escaping, lexical cleaning and strings.HasPrefix are computed character *)
(* by character, as the code computes them.                                *)
(***************************************************************************)
EXTENDS Integers, Sequences, FiniteSets, TLC

(***************************************************************************)
(* Characters                                                              *)
(***************************************************************************)
Digits == <<"0", "1", "2", "3", "4", "5", "6", "7", "8", "9">>

UpperCase == <<"A", "B", "C", "D", "E", "F", "G", "H", "I", "J", "K", "L", "M",
               "N", "O", "P", "Q", "R", "S", "T", "U", "V", "W", "X", "Y", "Z">>

LowerCase == <<"a", "b", "c", "d", "e", "f", "g", "h", "i", "j", "k", "l", "m",
               "n", "o", "p", "q", "r", "s", "t", "u", "v", "w", "x", "y", "z">>

Range(f) == {f[i] : i \in DOMAIN f}

IndexOf(seq, c) == CHOOSE i \in DOMAIN seq : seq[i] = c

Punct == {" ", "%", "+", ".", "/", "?"}

Chars == Punct \cup Range(Digits) \cup Range(UpperCase) \cup Range(LowerCase)

\* The byte value of a character (ASCII).
Ord ==
  [c \in Chars |->
     IF c = " " THEN 32
     ELSE IF c = "%" THEN 37
     ELSE IF c = "+" THEN 43
     ELSE IF c = "." THEN 46
     ELSE IF c = "/" THEN 47
     ELSE IF c = "?" THEN 63
     ELSE IF c \in Range(Digits) THEN 47 + IndexOf(Digits, c)
     ELSE IF c \in Range(UpperCase) THEN 64 + IndexOf(UpperCase, c)
     ELSE 96 + IndexOf(LowerCase, c)]

\* The character of a byte value; a byte outside the modelled alphabet is
\* shown as "?".
Chr(n) == IF \E c \in Chars : Ord[c] = n THEN CHOOSE c \in Chars : Ord[c] = n ELSE "?"

\* strings.ToLower on one character
LowerChar ==
  [c \in Chars |-> IF c \in Range(UpperCase) THEN LowerCase[IndexOf(UpperCase, c)] ELSE c]

ToLower(s) == [i \in DOMAIN s |-> LowerChar[s[i]]]

\* net/url ishex and unhex
ishex(c) == c \in Range(Digits) \cup {"a", "b", "c", "d", "e", "f", "A", "B", "C", "D", "E", "F"}

unhex(c) ==
  IF c \in Range(Digits) THEN IndexOf(Digits, c) - 1
  ELSE IF c \in Range(LowerCase) THEN 9 + IndexOf(LowerCase, c)
  ELSE 9 + IndexOf(UpperCase, c)

\* The two upper-case hexadecimal digits url.escape writes after "%".
HexPair(c) ==
  LET hexdig == Digits \o <<"A", "B", "C", "D", "E", "F">>
  IN  <<hexdig[(Ord[c] \div 16) + 1], hexdig[(Ord[c] % 16) + 1]>>

(***************************************************************************)
(* Strings                                                                 *)
(***************************************************************************)
\* strings.HasPrefix: a plain string-prefix test
HasPrefix(s, prefix) ==
  /\ Len(s) >= Len(prefix)
  /\ SubSeq(s, 1, Len(prefix)) = prefix

Tail3(s) == SubSeq(s, 4, Len(s))

\* byte-wise s < t, as Go compares strings
RECURSIVE StrLess(_, _)
StrLess(s, t) ==
  IF t = <<>> THEN FALSE
  ELSE IF s = <<>> THEN TRUE
  ELSE IF Head(s) = Head(t) THEN StrLess(Tail(s), Tail(t))
  ELSE Ord[Head(s)] < Ord[Head(t)]

\* strings.Split(s, "/")
RECURSIVE SplitFrom(_, _)
SplitFrom(s, cur) ==
  IF s = <<>> THEN <<cur>>
  ELSE IF Head(s) = "/" THEN <<cur>> \o SplitFrom(Tail(s), <<>>)
  ELSE SplitFrom(Tail(s), Append(cur, Head(s)))

Split(s) == SplitFrom(s, <<>>)

\* strings.Join(segs, "/")
RECURSIVE JoinSegs(_)
JoinSegs(segs) ==
  IF segs = <<>> THEN <<>>
  ELSE IF Len(segs) = 1 THEN segs[1]
  ELSE segs[1] \o <<"/">> \o JoinSegs(Tail(segs))

DotDot == <<".", ".">>

(***************************************************************************)
(* net/url                                                                 *)
(***************************************************************************)
\* url.unescape: "%" must be followed by two hexadecimal digits, else the
\* call fails; in query mode "+" decodes to a space.
RECURSIVE unescape(_, _)
unescape(s, queryMode) ==
  IF s = <<>> THEN [ok |-> TRUE, s |-> <<>>]
  ELSE IF Head(s) = "%"
    THEN IF Len(s) >= 3 /\ ishex(s[2]) /\ ishex(s[3])
           THEN LET rest == unescape(Tail3(s), queryMode)
                IN  [ok |-> rest.ok,
                     s  |-> IF rest.ok
                              THEN <<Chr(16 * unhex(s[2]) + unhex(s[3]))>> \o rest.s
                              ELSE <<>>]
           ELSE [ok |-> FALSE, s |-> <<>>]
  ELSE LET rest == unescape(Tail(s), queryMode)
           c    == IF Head(s) = "+" /\ queryMode THEN " " ELSE Head(s)
       IN  [ok |-> rest.ok, s |-> IF rest.ok THEN <<c>> \o rest.s ELSE <<>>]

\* a decoder that lets an invalid escape through as it is written
QueryUnescapeLenient(s) ==
  IF unescape(s, TRUE).ok THEN unescape(s, TRUE) ELSE [ok |-> TRUE, s |-> s]

QueryUnescape(s) == unescape(s, TRUE)

PathUnescape(s) == unescape(s, FALSE)

\* url.shouldEscape in encodePathSegment mode, over the modelled alphabet:
\* letters, digits and "." are unreserved, "+" is left alone, "/" and "?"
\* and every other character are escaped.
shouldEscape(c) == c \in {" ", "%", "/", "?"}

\* url.PathEscape
RECURSIVE PathEscape(_)
PathEscape(s) ==
  IF s = <<>> THEN <<>>
  ELSE (IF shouldEscape(Head(s)) THEN <<"%">> \o HexPair(Head(s)) ELSE <<Head(s)>>)
       \o PathEscape(Tail(s))

(***************************************************************************)
(* path and path/filepath (Unix)                                           *)
(***************************************************************************)
\* The component stack path.Clean keeps: "." and empty components are
\* dropped, ".." removes the previous component, is dropped at the root of
\* a rooted path and is kept at the front of a non-rooted one.
RECURSIVE CleanSegs(_, _, _)
CleanSegs(segs, stack, rooted) ==
  IF segs = <<>> THEN stack
  ELSE LET c == Head(segs)
           next ==
             IF c = <<>> \/ c = <<".">> THEN stack
             ELSE IF c = DotDot
               THEN IF stack # <<>> /\ stack[Len(stack)] # DotDot
                      THEN SubSeq(stack, 1, Len(stack) - 1)
                      ELSE IF rooted THEN stack ELSE Append(stack, DotDot)
             ELSE Append(stack, c)
       IN  CleanSegs(Tail(segs), next, rooted)

\* path.Clean (filepath.Clean is the same function on Unix)
Clean(p) ==
  IF p = <<>> THEN <<".">>
  ELSE LET rooted == Head(p) = "/"
           body   == JoinSegs(CleanSegs(Split(p), <<>>, rooted))
       IN  IF rooted THEN <<"/">> \o body
           ELSE IF body = <<>> THEN <<".">> ELSE body

\* filepath.Join and path.Join of two elements: empty elements are ignored,
\* the rest joined with "/" and cleaned.
Join(a, b) ==
  IF a = <<>> /\ b = <<>> THEN <<>>
  ELSE IF a = <<>> THEN Clean(b)
  ELSE IF b = <<>> THEN Clean(a)
  ELSE Clean(a \o <<"/">> \o b)

IsAbs(p) == p # <<>> /\ Head(p) = "/"

\* filepath.Abs relative to the working directory wd
Abs(p, wd) == IF IsAbs(p) THEN Clean(p) ELSE Join(wd, p)

\* path.Dir: everything before the last "/", cleaned
Dir(p) ==
  LET slashes == {i \in DOMAIN p : p[i] = "/"}
  IN  IF slashes = {} THEN <<".">>
      ELSE LET last == CHOOSE i \in slashes : \A j \in slashes : j <= i
           IN  Clean(SubSeq(p, 1, last))

\* filepath.Base: trailing slashes are dropped, then the part after the
\* last "/" is taken; "." for the empty path, "/" for a path of slashes.
RECURSIVE TrimSlashes(_)
TrimSlashes(p) ==
  IF p # <<>> /\ p[Len(p)] = "/" THEN TrimSlashes(SubSeq(p, 1, Len(p) - 1)) ELSE p

Base(p) ==
  LET t == TrimSlashes(p)
  IN  IF p = <<>> THEN <<".">>
      ELSE IF t = <<>> THEN <<"/">>
      ELSE Split(t)[Len(Split(t))]

\* filepath.Ext: the suffix from the last "." of the last element
Ext(p) ==
  LET b == Split(p)[Len(Split(p))]
      dots == {i \in DOMAIN b : b[i] = "."}
  IN  IF dots = {} THEN <<>>
      ELSE LET last == CHOOSE i \in dots : \A j \in dots : j <= i
           IN  SubSeq(b, last, Len(b))

(***************************************************************************)
(* mime                                                                    *)
(***************************************************************************)
\* mime.TypeByExtension, for the extensions of the modelled files; "" when
\* the extension is unknown.
TypeByExtension(ext) ==
  LET e == ToLower(ext)
  IN  IF e = <<".", "m", "p", "4">> THEN "video/mp4"
      ELSE IF e = <<".", "m", "p", "3">> THEN "audio/mpeg"
      ELSE IF e = <<".", "t", "x", "t">> THEN "text/plain; charset=utf-8"
      ELSE ""

(***************************************************************************)
(* Bounds                                                                  *)
(***************************************************************************)
\* the number of pieces a request path is put together from
MaxPieces == 2

\* the number of children of one directory whose metadata read may fail
MaxBadEntries == 1

(***************************************************************************)
(* Configuration and filesystem                                            *)
(***************************************************************************)
\* the process's working directory
WorkDir == <<"/", "o", "p", "t">>

\* Media.Directory: an absolute directory, and the default "./media"
MediaDirs ==
  { <<"/", "m", "e", "d", "i", "a">>,
    <<".", "/", "m", "e", "d", "i", "a">> }

\* The names under the served root.  Variant "A" has two names that differ
\* only in letter case and a name with "+"; variant "B" has a hidden
\* directory, an upper-case name and an etc/passwd of its own.
RootEntries(variant) ==
  { [rel |-> <<"s", "u", "b">>, isDir |-> TRUE],
    [rel |-> <<"s", "u", "b", "/", "b", ".", "m", "p", "3">>, isDir |-> FALSE],
    [rel |-> <<"a", ".", "t", "x", "t">>, isDir |-> FALSE],
    [rel |-> <<".", "e", "n", "v">>, isDir |-> FALSE] }
  \cup
  IF variant = "A"
    THEN { [rel |-> <<"A", ".", "t", "x", "t">>, isDir |-> FALSE],
           [rel |-> <<"a", "+", "b">>, isDir |-> FALSE] }
    ELSE { [rel |-> <<"Z", ".", "m", "p", "4">>, isDir |-> FALSE],
           [rel |-> <<".", "g", "i", "t">>, isDir |-> TRUE],
           [rel |-> <<".", "g", "i", "t", "/", "c", "o", "n", "f">>, isDir |-> FALSE],
           [rel |-> <<".", "g", "i", "t", "/", ".", "h">>, isDir |-> FALSE],
           [rel |-> <<"e", "t", "c">>, isDir |-> TRUE],
           [rel |-> <<"e", "t", "c", "/", "p", "a", "s", "s", "w", "d">>, isDir |-> FALSE] }

\* What lies outside every served root: /etc/passwd, and next to the served
\* root a directory whose name starts with the root's name.
Outside(absRoot) ==
  { [path |-> <<"/", "e", "t", "c">>, isDir |-> TRUE],
    [path |-> <<"/", "e", "t", "c", "/", "p", "a", "s", "s", "w", "d">>, isDir |-> FALSE],
    [path |-> absRoot \o <<"2">>, isDir |-> TRUE],
    [path |-> absRoot \o <<"2", "/", "x">>, isDir |-> FALSE] }

\* What is under the served root and is neither a directory nor a regular
\* file: a named pipe in etc, in variant "B".
SpecialEntries(variant) ==
  IF variant = "B" THEN { <<"e", "t", "c", "/", "p", "i", "p", "e">> } ELSE {}

\* The symbolic links under the served root, in variant "A": one to the
\* directory sub and one whose target does not exist.
LinkEntries(variant) ==
  IF variant = "A"
    THEN { [rel |-> <<"l", "n">>, to |-> <<"s", "u", "b">>],
           [rel |-> <<"d", "e", "a", "d">>, to |-> <<"g", "o", "n", "e">>] }
    ELSE {}

\* the size in bytes of the file called name: 0, 1 or 2
FileSize(name) == Len(name) % 3

\* a node of the filesystem: its absolute path, the directory it is in, its
\* name in that directory, its type and size as the fs.FileInfo of the node
\* itself tells them (IsDir, Mode().IsRegular, Size), and the path it links
\* to when it is a symbolic link
Node(path, isDir) ==
  [path |-> path, dir |-> Dir(path), name |-> Base(path), isDir |-> isDir, isRegular |-> ~isDir,
   size |-> IF isDir THEN 0 ELSE FileSize(Base(path)), target |-> <<>>]

\* a node that is neither a directory nor a regular file
Special(path) == [Node(path, FALSE) EXCEPT !.isRegular = FALSE]

\* a symbolic link to the absolute path to
Symlink(path, to) == [Special(path) EXCEPT !.target = to]

\* a filesystem: the set of its nodes
FileSystem(absRoot, variant) ==
  { Node(absRoot, TRUE) }
  \cup { Node(absRoot \o <<"/">> \o e.rel, e.isDir) : e \in RootEntries(variant) }
  \cup { Special(absRoot \o <<"/">> \o rel) : rel \in SpecialEntries(variant) }
  \cup { Symlink(absRoot \o <<"/">> \o l.rel, absRoot \o <<"/">> \o l.to) : l \in LinkEntries(variant) }
  \cup { Node(o.path, o.isDir) : o \in Outside(absRoot) }

Variants == {"A", "B"}

\* The pieces request paths are put together from.
Pieces ==
  { <<>>,
    <<".">>,
    <<".", ".">>,
    <<".", ".", "/", ".", ".">>,
    <<"%", "2", "e", "%", "2", "e", "%", "2", "F", ".", ".">>,
    <<"%", "z", "z">>,
    <<"s", "u", "b">>,
    <<"a", ".", "t", "x", "t">>,
    <<".", "g", "i", "t">>,
    <<"e", "t", "c", "/", "p", "a", "s", "s", "w", "d">>,
    <<"m", "e", "d", "i", "a", "2">> }

\* r.URL.Path of a request: rooted or not, zero to MaxPieces pieces
RequestPaths ==
  { (IF rooted THEN <<"/">> ELSE <<>>) \o JoinSegs(ps) :
      rooted \in BOOLEAN,
      ps \in UNION { [1..n -> Pieces] : n \in 0..MaxPieces } }

(***************************************************************************)
(* State                                                                   *)
(***************************************************************************)
VARIABLES
  probe,      \* the last call of a function taken by itself: its name, input and output
  rangeReq,   \* the request's Range header as http.ServeContent reads it, <<>> when absent
  config,     \* MediaServer.config: [Directory |-> Media.Directory]
  fs,         \* the filesystem
  pc,         \* where the handler of the request in flight stands
  rawPath,    \* r.URL.Path (the argument, for an IsValidMediaPath call)
  method,     \* r.Method
  cleanPath,  \* handleRequest's cleanPath
  fullPath,   \* handleRequest's fullPath
  fileInfo,   \* what os.Stat returned
  status,     \* the status code sent, 0 while none is
  statusCode, \* responseWriter.statusCode of loggingMiddleware's wrapper, 0 before it is made
  headers,    \* the response headers
  body,       \* the response body
  data,       \* the DirectoryData given to the template: <<>> or <<d>>
  ops,        \* the filesystem calls of this request, in order
  logs,       \* what this request gave to log.Printf, in order
  errKind,    \* the failure this request ended in, "" when none
  handles,    \* the number of open file handles
  valid,      \* the answer of IsValidMediaPath: <<>> or <<ok>>
  linkOf,     \* the filesystem entry whose listing link this request follows
  prev,       \* the last error response before this request: <<>> or <<r>>
  peer        \* the other request in flight: its handler's own state

vars == <<probe, rangeReq, config, fs, pc, rawPath, method, cleanPath, fullPath, fileInfo, status, statusCode,
          headers, body, data, ops, logs, errKind, handles, valid, linkOf, prev, peer>>

NoInfo ==
  [path |-> <<>>, dir |-> <<>>, name |-> <<>>, isDir |-> FALSE, isRegular |-> FALSE,
   size |-> 0, target |-> <<>>]

NoProbe == [fn |-> "", in |-> <<>>, out |-> <<>>]

NoBody == [text |-> "", args |-> <<>>]

NoHeaders == [h \in {} |-> [text |-> "", arg |-> <<>>]]

\* http.Header.Set
SetHeader(h, key, text, arg) ==
  [k \in DOMAIN h \cup {key} |-> IF k = key THEN [text |-> text, arg |-> arg] ELSE h[k]]

\* the state of a handler that has no request
IdleRequest ==
  [pc |-> "idle", rawPath |-> <<>>, method |-> "", cleanPath |-> <<>>, fullPath |-> <<>>,
   fileInfo |-> NoInfo, status |-> 0, statusCode |-> 0, headers |-> NoHeaders, body |-> NoBody,
   data |-> <<>>, ops |-> <<>>, logs |-> <<>>, errKind |-> "", valid |-> <<>>, linkOf |-> <<>>,
   rangeReq |-> <<>>]

\* filepath.Abs(s.config.Media.Directory)
AbsMediaDir == Abs(config.Directory, WorkDir)

(***************************************************************************)
(* Init: the server is constructed and no request is in flight             *)
(***************************************************************************)
Init ==
  /\ probe = NoProbe
  /\ rangeReq = <<>>
  /\ config \in {[Directory |-> d] : d \in MediaDirs}
  /\ fs \in {FileSystem(Abs(config.Directory, WorkDir), v) : v \in Variants}
  /\ pc = "idle"
  /\ rawPath = <<>>
  /\ method = ""
  /\ cleanPath = <<>>
  /\ fullPath = <<>>
  /\ fileInfo = NoInfo
  /\ status = 0
  /\ statusCode = 0
  /\ headers = NoHeaders
  /\ body = NoBody
  /\ data = <<>>
  /\ ops = <<>>
  /\ logs = <<>>
  /\ errKind = ""
  /\ handles = 0
  /\ valid = <<>>
  /\ linkOf = <<>>
  /\ prev = <<>>
  /\ peer = IdleRequest

\* the per-request variables of a request that has just arrived
Fresh(p, m, link) ==
  /\ rawPath' = p
  /\ method' = m
  /\ linkOf' = link
  /\ rangeReq' = <<>>
  /\ cleanPath' = <<>>
  /\ fullPath' = <<>>
  /\ fileInfo' = NoInfo
  /\ status' = 0
  /\ statusCode' = 0
  /\ headers' = NoHeaders
  /\ body' = NoBody
  /\ data' = <<>>
  /\ ops' = <<>>
  /\ logs' = <<>>
  /\ errKind' = ""
  /\ valid' = <<>>

\* the error response this request ended in becomes the previous one
Remember ==
  prev' = IF errKind # "" THEN <<[kind |-> errKind, status |-> status, body |-> body]>>
          ELSE prev

(***************************************************************************)
(* The server receives a request                                           *)
(***************************************************************************)
Receive(p, m) ==
  /\ pc = "idle"
  /\ pc' = "cors"
  /\ Fresh(p, m, <<>>)
  /\ UNCHANGED <<probe, config, fs, handles, prev, peer>>

(***************************************************************************)
(* The middleware: corsMiddleware(loggingMiddleware(mux)).  The mux gives   *)
(* every request of the browse path to handleRequest; handleRequest is      *)
(* taken with every r.URL.Path a caller can hand it.                        *)
(***************************************************************************)
\* the three headers corsMiddleware sets on every response
CorsHeaders(h) ==
  SetHeader(SetHeader(SetHeader(h, "Access-Control-Allow-Origin", "*", <<>>),
                      "Access-Control-Allow-Methods", "GET, HEAD, OPTIONS", <<>>),
            "Access-Control-Allow-Headers", "Content-Type, Range", <<>>)

\* corsMiddleware: an OPTIONS request is answered 200 here and goes no
\* further; any other request goes on to loggingMiddleware, which wraps the
\* writer (statusCode 200) and calls the mux.
CorsMiddleware ==
  /\ pc = "cors"
  /\ headers' = CorsHeaders(headers)
  /\ IF method = "OPTIONS"
       THEN /\ status' = 200
            /\ pc' = "done"
            /\ UNCHANGED statusCode
       ELSE /\ statusCode' = 200
            /\ pc' = "resolve"
            /\ UNCHANGED status
  /\ UNCHANGED <<probe, rangeReq, config, fs, peer, method, rawPath, cleanPath, fullPath, fileInfo, body, data, ops,
                 logs, errKind, handles, valid, linkOf, prev>>

\* the format of the request log record
RequestLogFormat == "%s %s %s - %d - %v - %s"

\* loggingMiddleware, once the mux has returned: one record with the method,
\* the path and the wrapper's status code
LoggingMiddleware ==
  /\ pc = "handled"
  /\ logs' = Append(logs, [text |-> RequestLogFormat,
                           args |-> <<<<method>>, rawPath, <<statusCode>>>>])
  /\ pc' = "done"
  /\ UNCHANGED <<probe, rangeReq, config, fs, peer, method, rawPath, cleanPath, fullPath, fileInfo, status,
                 statusCode, headers, body, data, ops, errKind, handles, valid, linkOf, prev>>

(***************************************************************************)
(* handleRequest                                                           *)
(***************************************************************************)
\* http.Error: a text/plain response with the given status and message
HttpError(msg, code, kind) ==
  /\ status' = code
  /\ statusCode' = code
  /\ headers' = SetHeader(SetHeader(headers, "Content-Type", "text/plain; charset=utf-8", <<>>),
                          "X-Content-Type-Options", "nosniff", <<>>)
  /\ body' = msg
  /\ errKind' = kind
  /\ pc' = "handled"

\* the messages of the error responses
InvalidPathBody == [text |-> "Invalid URL path", args |-> <<>>]

InternalErrorBody == [text |-> "Internal server error", args |-> <<>>]

ForbiddenBody == [text |-> "Forbidden", args |-> <<>>]

\* http.NotFound
NotFoundBody == [text |-> "404 page not found", args |-> <<>>]

\* a body that repeats the log line: the path and the cause
StatErrorBodyLeak(path, err) == [text |-> "Error accessing file %s: %v", args |-> <<path, err>>]

\* the body sent when os.Stat fails with an error other than not-exist
StatErrorBody(path, err) == InternalErrorBody

\* the body sent when os.ReadDir fails
ReadDirErrorBody(path, err) == [text |-> "Unable to read directory", args |-> <<>>]

\* the body sent when os.Open fails
OpenErrorBody(path, err) == [text |-> "Unable to open file", args |-> <<>>]

\* cleanPath without the call of path.Clean
CleanPathRaw(decodedPath) == IF decodedPath = <<>> THEN <<"/">> ELSE decodedPath

\* cleanPath := path.Clean(decodedPath), "/" in place of "."
CleanPathOf(decodedPath) ==
  LET c == Clean(decodedPath)
  IN  IF c = <<".">> THEN <<"/">> ELSE c

\* a check that lets every path through
ContainedAlways(absFullPath, absMediaDir) == TRUE

\* a check that also turns away every path with a component that starts
\* with a dot
ContainedNoHidden(absFullPath, absMediaDir) ==
  /\ HasPrefix(absFullPath, absMediaDir)
  /\ \A i \in DOMAIN Split(absFullPath) : ~HasPrefix(Split(absFullPath)[i], <<".">>)

\* the security check: strings.HasPrefix(absFullPath, absMediaDir)
Contained(absFullPath, absMediaDir) == HasPrefix(absFullPath, absMediaDir)

\* Decoding, cleaning, joining and the security check.  filepath.Abs fails
\* only when the path is relative and the working directory cannot be read
\* (wdOk false).
HandleResolve ==
  /\ pc = "resolve"
  /\ \E wdOk \in (IF IsAbs(config.Directory) THEN {TRUE} ELSE BOOLEAN) :
       LET decoded == QueryUnescape(rawPath)
           clean   == CleanPathOf(decoded.s)
           full    == Join(config.Directory, clean)
       IN  IF ~decoded.ok
             THEN /\ HttpError(InvalidPathBody, 400, "MalformedPath")
                  /\ UNCHANGED <<cleanPath, fullPath>>
             ELSE /\ cleanPath' = clean
                  /\ fullPath' = full
                  /\ IF ~wdOk
                       THEN HttpError(InternalErrorBody, 500, "InternalError")
                       ELSE IF ~Contained(Abs(full, WorkDir), AbsMediaDir)
                         THEN HttpError(ForbiddenBody, 403, "OutsideRoot")
                         ELSE /\ pc' = "stat"
                              /\ UNCHANGED <<status, statusCode, headers, body, errKind>>
  /\ UNCHANGED <<probe, rangeReq, config, fs, peer, method, rawPath, fileInfo, data, ops, logs, handles, valid, linkOf, prev>>

\* net/http cleanPath: the canonical form the ServeMux gives a request path,
\* rooted, cleaned, a trailing slash kept
MuxCleanPath(p) ==
  IF p = <<>> THEN <<"/">>
  ELSE LET q  == IF p[1] # "/" THEN <<"/">> \o p ELSE p
           np == Clean(q)
       IN  IF q[Len(q)] = "/" /\ np # <<"/">> THEN np \o <<"/">> ELSE np

\* the body of the ServeMux's redirect
MovedBody(m, to) ==
  IF m = "GET" THEN [text |-> "<a href=>Moved Permanently</a>.", args |-> <<to>>] ELSE NoBody

\* ServeMux.Handler for a method other than CONNECT: a request path that is
\* not in canonical form is answered 301 with the canonical path as
\* Location, and no handler of the server is called
ServeMuxRedirect ==
  /\ pc = "resolve"
  /\ MuxCleanPath(rawPath) # rawPath
  /\ status' = 301
  /\ statusCode' = 301
  /\ headers' = LET h == SetHeader(headers, "Location", "u.String()", MuxCleanPath(rawPath))
                IN  IF method \in {"GET", "HEAD"}
                      THEN SetHeader(h, "Content-Type", "text/html; charset=utf-8", <<>>)
                      ELSE h
  /\ body' = MovedBody(method, MuxCleanPath(rawPath))
  /\ pc' = "handled"
  /\ UNCHANGED <<probe, rangeReq, config, fs, peer, method, rawPath, cleanPath, fullPath, fileInfo,
                 data, ops, logs, errKind, handles, valid, linkOf, prev>>

\* ServeMux.Handler: a request path in canonical form goes to the handler
\* of the pattern "/", handleRequest
ServeMuxHandle ==
  /\ MuxCleanPath(rawPath) = rawPath
  /\ HandleResolve

\* The path that abs names once the symbolic link on it, if there is one,
\* is followed (no link of the filesystems here leads to another link).
Real(f, abs) ==
  IF \E n \in f : n.target # <<>> /\ (abs = n.path \/ HasPrefix(abs, n.path \o <<"/">>))
    THEN LET n == CHOOSE n \in f :
                    n.target # <<>> /\ (abs = n.path \/ HasPrefix(abs, n.path \o <<"/">>))
         IN  n.target \o SubSeq(abs, Len(n.path) + 1, Len(abs))
    ELSE abs

\* the node found at the path real, under the name the caller asked for
NodeAs(f, real, abs) ==
  LET n == CHOOSE n \in f : n.path = real
  IN  IF real = abs THEN n
      ELSE [n EXCEPT !.path = abs, !.dir = Dir(abs), !.name = Base(abs)]

\* What os.Stat finds in the filesystem f at the absolute path abs, symbolic
\* links followed: the node, ENOTDIR below a file, ENOENT otherwise.
StatResult(f, abs) ==
  LET real == Real(f, abs)
  IN  IF \E n \in f : n.path = real
        THEN [err |-> "", info |-> NodeAs(f, real, abs)]
        ELSE IF \E n \in f : ~n.isDir /\ HasPrefix(real, n.path \o <<"/">>)
          THEN [err |-> "ENOTDIR", info |-> NoInfo]
          ELSE [err |-> "ENOENT", info |-> NoInfo]

\* os.Stat may also fail for a cause the tree does not show
StatResults(f, abs) == {StatResult(f, abs), [err |-> "EACCES", info |-> NoInfo]}

\* every error taken for not-exist
IsNotExistAny(err) == TRUE

\* os.IsNotExist
IsNotExist(err) == err = "ENOENT"

\* os.Stat(fullPath) and the dispatch on its result
HandleStat ==
  /\ pc = "stat"
  /\ \E r \in StatResults(fs, Abs(fullPath, WorkDir)) :
       /\ ops' = Append(ops, [op |-> "Stat", path |-> Abs(fullPath, WorkDir), err |-> r.err])
       /\ IF r.err # ""
            THEN /\ IF IsNotExist(r.err)
                      THEN /\ logs' = Append(logs, [text |-> "File not found: %s (requested: %s)",
                                                    args |-> <<fullPath, rawPath>>])
                           /\ HttpError(NotFoundBody, 404, "NotFound")
                      ELSE /\ logs' = Append(logs, [text |-> "Error accessing file %s: %v",
                                                    args |-> <<fullPath, <<r.err>>>>])
                           /\ HttpError(StatErrorBody(fullPath, <<r.err>>), 500, "InternalError")
                 /\ UNCHANGED fileInfo
            ELSE /\ fileInfo' = r.info
                 /\ pc' = IF r.info.isDir THEN "serveDirectory" ELSE "serveFile"
                 /\ UNCHANGED <<status, statusCode, headers, body, errKind, logs>>
  /\ UNCHANGED <<probe, rangeReq, config, fs, peer, method, rawPath, cleanPath, fullPath, data, handles, valid, linkOf, prev>>

\* the listing built from the request path as it came
UrlPathRaw(raw, clean) == raw

\* the urlPath handleRequest gives serveDirectory: cleanPath
UrlPathOf(raw, clean) == clean

(***************************************************************************)
(* serveDirectory                                                          *)
(***************************************************************************)
\* the nodes directly under the directory abs, each as its own (link not
\* followed) fs.FileInfo tells it, under the path it has below abs
Children(f, abs) ==
  LET real == Real(f, abs)
  IN  IF real = abs THEN {n \in f : n.path # abs /\ n.dir = abs}
      ELSE { [n EXCEPT !.path = abs \o <<"/">> \o n.name, !.dir = abs] :
               n \in {m \in f : m.path # real /\ m.dir = real} }

\* os.ReadDir returns the entries sorted by filename
RECURSIVE SortedByName(_)
SortedByName(S) ==
  IF S = {} THEN <<>>
  ELSE LET m == CHOOSE n \in S : \A o \in S \ {n} : StrLess(n.name, o.name)
       IN  <<m>> \o SortedByName(S \ {m})

ReadDir(f, abs) == SortedByName(Children(f, abs))

\* no entry counts as hidden
HiddenNever(name) == FALSE

\* "Skip hidden files": strings.HasPrefix(info.Name(), ".")
Hidden(name) == HasPrefix(name, <<".">>)

\* the MimeType of a record: empty for a directory, else by extension with
\* the octet-stream fallback
MimeTypeOf(name, isDir) ==
  IF isDir THEN ""
  ELSE IF TypeByExtension(Ext(name)) = "" THEN "application/octet-stream"
  ELSE TypeByExtension(Ext(name))

\* the FileInfo record appended for one entry
FileRecord(urlPath, info) ==
  LET filePath == Join(urlPath, info.name)
  IN  [Name        |-> info.name,
       Path        |-> filePath,
       IsDir       |-> info.isDir,
       MimeType    |-> MimeTypeOf(info.name, info.isDir),
       EncodedPath |-> PathEscape(filePath)]

\* the loop given up at the first entry whose Info() fails
RECURSIVE BuildFilesAbort(_, _, _)
BuildFilesAbort(urlPath, entries, bad) ==
  IF entries = <<>> THEN <<>>
  ELSE LET info == Head(entries)
       IN  IF info.path \in bad THEN <<>>
           ELSE IF Hidden(info.name) THEN BuildFilesAbort(urlPath, Tail(entries), bad)
           ELSE <<FileRecord(urlPath, info)>> \o BuildFilesAbort(urlPath, Tail(entries), bad)

\* The loop over the entries: an entry whose Info() fails (bad) and a hidden
\* entry are skipped, every other one gives a record, in ReadDir order.
RECURSIVE BuildFiles(_, _, _)
BuildFiles(urlPath, entries, bad) ==
  IF entries = <<>> THEN <<>>
  ELSE LET info == Head(entries)
           rest == BuildFiles(urlPath, Tail(entries), bad)
       IN  IF info.path \in bad THEN rest
           ELSE IF Hidden(info.name) THEN rest
           ELSE <<FileRecord(urlPath, info)>> \o rest

\* the less function given to sort.Slice
less(a, b) ==
  IF a.IsDir # b.IsDir THEN a.IsDir
  ELSE StrLess(ToLower(a.Name), ToLower(b.Name))

\* sort.Slice is not stable: it may return any order of the records in
\* which no record is less than one before it.
RECURSIVE SortedOrders(_)
SortedOrders(S) ==
  IF S = {} THEN {<<>>}
  ELSE UNION { { <<m>> \o t : t \in SortedOrders(S \ {m}) } :
               m \in {x \in S : \A y \in S : ~less(y, x)} }

SortSlice(files) == SortedOrders(Range(files))

\* data.ParentPath: empty at the root, else path.Dir with "/" for "."
ParentPathOf(urlPath) ==
  IF urlPath = <<"/">> THEN <<>>
  ELSE IF Dir(urlPath) = <<".">> THEN <<"/">>
  ELSE Dir(urlPath)

\* the sets of at most k entries whose Info() fails
RECURSIVE BadSets(_, _)
BadSets(S, k) ==
  IF k = 0 THEN {{}}
  ELSE BadSets(S, k - 1) \cup {b \cup {p} : b \in BadSets(S, k - 1), p \in S}

\* the Lstat calls entry.Info() makes, one per entry, failing for the bad ones
InfoOps(entries, bad) ==
  [i \in DOMAIN entries |->
     [op |-> "Lstat", path |-> entries[i].path,
      err |-> IF entries[i].path \in bad THEN "ENOENT" ELSE ""]]

ListingBody == [text |-> "directory.html", args |-> <<>>]

\* what the client has when template execution fails on a write: the page
\* so far, then the text of http.Error
BrokenListingBody == [text |-> "directory.html (cut) Internal server error", args |-> <<>>]

\* serveDirectory(w, r, fullPath, cleanPath).  readOk: os.ReadDir succeeds;
\* bad: the entries whose Info() fails; execOk: template.Execute succeeds.
\* When Execute fails the status 200 and the headers have gone out with the
\* first write, so http.Error only adds its text.
ServeDirectory ==
  /\ pc = "serveDirectory"
  /\ LET abs     == Abs(fullPath, WorkDir)
         urlPath == UrlPathOf(rawPath, cleanPath)
         entries == ReadDir(fs, abs)
     IN  \E readOk \in BOOLEAN :
           IF ~readOk
             THEN /\ ops' = Append(ops, [op |-> "ReadDir", path |-> abs, err |-> "EACCES"])
                  /\ HttpError(ReadDirErrorBody(fullPath, <<"EACCES">>), 500, "DirectoryUnreadable")
                  /\ UNCHANGED <<data, logs>>
             ELSE \E bad \in BadSets({n.path : n \in Range(entries)}, MaxBadEntries) :
                  \E files \in SortSlice(BuildFiles(urlPath, entries, bad)) :
                  \E execOk \in BOOLEAN :
                    /\ ops' = Append(ops, [op |-> "ReadDir", path |-> abs, err |-> ""])
                                \o InfoOps(entries, bad)
                    /\ data' = <<[Path       |-> urlPath,
                                  ParentPath |-> ParentPathOf(urlPath),
                                  Files      |-> files,
                                  ServerName |-> "HTTP Media Server"]>>
                    /\ headers' = SetHeader(headers, "Content-Type", "text/html; charset=utf-8", <<>>)
                    /\ status' = 200
                    /\ errKind' = ""
                    /\ pc' = "handled"
                    /\ IF execOk
                         THEN /\ body' = ListingBody
                              /\ UNCHANGED <<logs, statusCode>>
                         ELSE /\ body' = BrokenListingBody
                              /\ statusCode' = 500
                              /\ logs' = Append(logs, [text |-> "Template execution error: %v",
                                                       args |-> <<<<"EPIPE">>>>])
  /\ UNCHANGED <<probe, rangeReq, config, fs, peer, method, rawPath, cleanPath, fullPath, fileInfo, handles, valid, linkOf, prev>>

(***************************************************************************)
(* strconv                                                                 *)
(***************************************************************************)
IsDigit(c) == \E i \in 1..10 : Digits[i] = c

DigitValue(c) == (CHOOSE i \in 1..10 : Digits[i] = c) - 1

\* strconv.Itoa
RECURSIVE Itoa(_)
Itoa(n) ==
  IF n < 0 THEN <<"-">> \o Itoa(0 - n)
  ELSE IF n < 10 THEN <<Digits[n + 1]>>
  ELSE Itoa(n \div 10) \o <<Digits[(n % 10) + 1]>>

\* the number a string of digits writes
RECURSIVE DigitsValue(_)
DigitsValue(s) ==
  IF s = <<>> THEN 0
  ELSE 10 * DigitsValue(SubSeq(s, 1, Len(s) - 1)) + DigitValue(s[Len(s)])

\* strconv.ParseInt(s, 10, 64), for numbers that fit: an optional sign and
\* digits, anything else an error
ParseInt(s) ==
  LET signed == s # <<>> /\ s[1] \in {"-", "+"}
      d      == IF signed THEN Tail(s) ELSE s
  IN  IF d = <<>> \/ \E i \in 1..Len(d) : ~IsDigit(d[i])
        THEN [ok |-> FALSE, n |-> 0]
        ELSE [ok |-> TRUE, n |-> IF s[1] = "-" THEN 0 - DigitsValue(d) ELSE DigitsValue(d)]

(***************************************************************************)
(* serveFile                                                               *)
(***************************************************************************)
\* the detected type taken as it is, empty or not
ContentTypeDetected(path) == TypeByExtension(Ext(path))

\* the Content-Type of a file response
ContentTypeOf(path) ==
  IF TypeByExtension(Ext(path)) = "" THEN "application/octet-stream"
  ELSE TypeByExtension(Ext(path))

\* the headers serveFile sets once the file is open
FileHeaders(h, path, info) ==
  LET h1 == SetHeader(h, "Content-Type", ContentTypeOf(path), <<>>)
      h2 == SetHeader(h1, "Accept-Ranges", "bytes", <<>>)
      h3 == SetHeader(h2, "Cache-Control", "public, max-age=3600", <<>>)
      h4 == SetHeader(h3, "Content-Length", "%d", <<info.size>>)
  IN  SetHeader(h4, "Content-Disposition", "inline; filename=", Base(path))

\* the file opened for writing, made anew or cut to length 0
OpenOpCreate == "Create"

\* the call serveFile opens the file with: os.Open, read-only
OpenOp == "Open"

\* serveFile with the headers set before os.Open is tried
ServeFileOpenHeadersFirst ==
  /\ pc = "serveFile"
  /\ \E openOk \in BOOLEAN :
       /\ ops' = Append(ops, [op |-> OpenOp, path |-> Abs(fullPath, WorkDir),
                              err |-> IF openOk THEN "" ELSE "EACCES"])
       /\ IF ~openOk
            THEN /\ status' = 500
                 /\ statusCode' = 500
                 /\ headers' = SetHeader(SetHeader(FileHeaders(headers, fullPath, fileInfo),
                                                    "Content-Type", "text/plain; charset=utf-8", <<>>),
                                          "X-Content-Type-Options", "nosniff", <<>>)
                 /\ body' = OpenErrorBody(fullPath, <<"EACCES">>)
                 /\ errKind' = "OpenFailed"
                 /\ pc' = "handled"
                 /\ UNCHANGED handles
            ELSE /\ handles' = handles + 1
                 /\ headers' = FileHeaders(headers, fullPath, fileInfo)
                 /\ pc' = "serveContent"
                 /\ UNCHANGED <<status, statusCode, body, errKind>>
  /\ UNCHANGED <<probe, rangeReq, config, fs, peer, method, rawPath, cleanPath, fullPath, fileInfo, data, logs, valid, linkOf, prev>>

\* os.Open(fullPath), and on success the response headers
ServeFileOpen ==
  /\ pc = "serveFile"
  /\ \E openOk \in BOOLEAN :
       /\ ops' = Append(ops, [op |-> OpenOp, path |-> Abs(fullPath, WorkDir),
                              err |-> IF openOk THEN "" ELSE "EACCES"])
       /\ IF ~openOk
            THEN /\ HttpError(OpenErrorBody(fullPath, <<"EACCES">>), 500, "OpenFailed")
                 /\ UNCHANGED handles
            ELSE /\ handles' = handles + 1
                 /\ headers' = FileHeaders(headers, fullPath, fileInfo)
                 /\ pc' = "serveContent"
                 /\ UNCHANGED <<status, statusCode, body, errKind>>
  /\ UNCHANGED <<probe, rangeReq, config, fs, peer, method, rawPath, cleanPath, fullPath, fileInfo, data, logs, valid, linkOf, prev>>

\* how the streaming of an open file can end
StreamOutcomes == {"complete", "readError", "clientGone"}

\* the body the client has after http.ServeContent sent length bytes of the
\* file from the offset start on: none for HEAD, the bytes, or the bytes up
\* to where the copy broke off
ContentBody(m, info, start, length, outcome) ==
  IF m = "HEAD" THEN NoBody
  ELSE IF outcome = "complete" \/ length = 0
    THEN [text |-> "content of", args |-> <<info.path, start, length>>]
  ELSE [text |-> "content of (cut)", args |-> <<info.path, start, length>>]

\* http.ServeContent's answer when it cannot seek in the file
SeekErrorBody == [text |-> "seeker can't seek", args |-> <<>>]

\* the last byte of a range is the last byte of the content
ClipEndLast(j, size) == size - 1

\* parseRange: an end at or beyond the size is cut back to the last byte
ClipEnd(j, size) == IF j >= size THEN size - 1 ELSE j

\* the position of the first "-" in s, 0 when there is none
IndexDash(s) ==
  IF \E i \in 1..Len(s) : s[i] = "-"
    THEN CHOOSE i \in 1..Len(s) : s[i] = "-" /\ \A k \in 1..(i - 1) : s[k] # "-"
    ELSE 0

\* net/http parseRange(s, size) for a header that names one range: no range
\* for no header, "invalid range" for what is no byte range, errNoOverlap
\* for a start at or beyond the size
ParseRange(s, size) ==
  LET none    == [err |-> "", ranges |-> <<>>]
      invalid == [err |-> "invalid range", ranges |-> <<>>]
      b       == <<"b", "y", "t", "e", "s", "=">>
      ra      == SubSeq(s, Len(b) + 1, Len(s))
      i       == IndexDash(ra)
      start   == SubSeq(ra, 1, i - 1)
      end     == SubSeq(ra, i + 1, Len(ra))
      from    == ParseInt(start)
      to      == ParseInt(end)
  IN  IF s = <<>> THEN none
      ELSE IF ~HasPrefix(s, b) THEN invalid
      ELSE IF ra = <<>> THEN none
      ELSE IF i = 0 THEN invalid
      ELSE IF start = <<>>
        THEN IF end = <<>> \/ end[1] = "-" \/ ~to.ok \/ to.n < 0 THEN invalid
             ELSE LET n == IF to.n > size THEN size ELSE to.n
                  IN  [err |-> "", ranges |-> <<[start |-> size - n, length |-> n]>>]
      ELSE IF ~from.ok \/ from.n < 0 THEN invalid
      ELSE IF from.n >= size
        THEN [err |-> "invalid range: failed to overlap", ranges |-> <<>>]
      ELSE IF end = <<>>
        THEN [err |-> "", ranges |-> <<[start |-> from.n, length |-> size - from.n]>>]
      ELSE IF ~to.ok \/ from.n > to.n THEN invalid
      ELSE [err |-> "", ranges |-> <<[start  |-> from.n,
                                      length |-> ClipEnd(to.n, size) - from.n + 1]>>]

\* what http.ServeContent answers, whatever the method, to a request with
\* the Range header rg for the open file info, the headers h being set: 500
\* when the file cannot be sought in (it is not a regular file); 416 for a
\* range that is invalid or starts at or beyond the end of a file that is
\* not empty; 206 and the bytes of the range; else 200 and the content
ServeContentAnswer(m, info, rg, outcome, h) ==
  LET h0      == SetHeader(h, "Last-Modified", "fileInfo.ModTime()", info.path)
      errh(x) == SetHeader(SetHeader(x, "Content-Type", "text/plain; charset=utf-8", <<>>),
                           "X-Content-Type-Options", "nosniff", <<>>)
      size    == info.size
      parsed  == ParseRange(rg, size)
      ranges  == IF parsed.err # "" THEN <<>> ELSE parsed.ranges
  IN  IF ~info.isRegular
        THEN [status |-> 500, headers |-> errh(h0), body |-> SeekErrorBody]
      ELSE IF parsed.err = "invalid range: failed to overlap" /\ size # 0
        THEN [status  |-> 416,
              headers |-> errh(SetHeader(h0, "Content-Range", "bytes */%d", <<size>>)),
              body    |-> [text |-> parsed.err, args |-> <<>>]]
      ELSE IF parsed.err = "invalid range"
        THEN [status |-> 416, headers |-> errh(h0), body |-> [text |-> parsed.err, args |-> <<>>]]
      ELSE IF Len(ranges) = 1
        THEN LET ra == ranges[1]
             IN  [status  |-> 206,
                  headers |-> SetHeader(SetHeader(h0, "Content-Range", "bytes %d-%d/%d",
                                                  <<ra.start, ra.start + ra.length - 1, size>>),
                                        "Content-Length", "%d", <<ra.length>>),
                  body    |-> ContentBody(m, info, ra.start, ra.length, outcome)]
      ELSE [status  |-> 200,
            headers |-> SetHeader(h0, "Content-Length", "%d", <<size>>),
            body    |-> ContentBody(m, info, 0, size, outcome)]

\* the Range headers of the requests
RangeHeaders ==
  { <<>>,
    <<"b", "y", "t", "e", "s", "=", "0", "-", "0">>,
    <<"b", "y", "t", "e", "s", "=", "1", "-", "5">>,
    <<"b", "y", "t", "e", "s", "=", "2", "-", "3">> }

\* http.ServeContent reads the Range header and sends its answer
ServeContentResponse(outcome) ==
  \E rg \in RangeHeaders :
    LET answer == ServeContentAnswer(method, fileInfo, rg, outcome, headers)
    IN  /\ rangeReq' = rg
        /\ status' = answer.status
        /\ statusCode' = answer.status
        /\ headers' = answer.headers
        /\ body' = answer.body

\* serveFile where file.Close() is reached only when the copy completes
ServeFileContentLeak ==
  /\ pc = "serveContent"
  /\ \E outcome \in StreamOutcomes :
       /\ ServeContentResponse(outcome)
       /\ handles' = IF outcome = "complete" THEN handles - 1 ELSE handles
  /\ pc' = "handled"
  /\ UNCHANGED <<probe, config, fs, peer, method, rawPath, cleanPath, fullPath, fileInfo, data, ops, logs,
                 errKind, valid, linkOf, prev>>

\* http.ServeContent streams the open file, to the end or until a read
\* fails or the client goes away; the deferred file.Close() runs when
\* serveFile returns, however the streaming ended.
ServeFileContent ==
  /\ pc = "serveContent"
  /\ \E outcome \in StreamOutcomes :
       /\ ServeContentResponse(outcome)
       /\ handles' = handles - 1
  /\ pc' = "handled"
  /\ UNCHANGED <<probe, config, fs, peer, method, rawPath, cleanPath, fullPath, fileInfo, data, ops, logs,
                 errKind, valid, linkOf, prev>>

(***************************************************************************)
(* FileInfo.GetFileIcon and FileInfo.GetFileClass                          *)
(***************************************************************************)
\* the icons, named by their code points
FolderIcon == "U+1F4C1"

VideoIcon == "U+1F3AC"

AudioIcon == "U+1F3B5"

ImageIcon == "U+1F5BC U+FE0F"

PageIcon == "U+1F4C4"

\* f.GetFileIcon()
GetFileIcon(f) ==
  IF f.IsDir THEN FolderIcon
  ELSE LET ext == ToLower(Ext(f.Name))
       IN  IF HasPrefix(f.MimeType, <<"v", "i", "d", "e", "o", "/">>) \/ ext = <<".", "m", "p", "4">> \/ ext = <<".", "a", "v", "i">> \/ ext = <<".", "m", "k", "v">>
                \/ ext = <<".", "m", "o", "v">> \/ ext = <<".", "w", "m", "v">> \/ ext = <<".", "f", "l", "v">> \/ ext = <<".", "w", "e", "b", "m">>
             THEN VideoIcon
           ELSE IF HasPrefix(f.MimeType, <<"a", "u", "d", "i", "o", "/">>) \/ ext = <<".", "m", "p", "3">> \/ ext = <<".", "w", "a", "v">> \/ ext = <<".", "f", "l", "a", "c">>
                \/ ext = <<".", "a", "a", "c">> \/ ext = <<".", "o", "g", "g">> \/ ext = <<".", "m", "4", "a">>
             THEN AudioIcon
           ELSE IF HasPrefix(f.MimeType, <<"i", "m", "a", "g", "e", "/">>) \/ ext = <<".", "j", "p", "g">> \/ ext = <<".", "j", "p", "e", "g">> \/ ext = <<".", "p", "n", "g">>
                \/ ext = <<".", "g", "i", "f">> \/ ext = <<".", "b", "m", "p">> \/ ext = <<".", "w", "e", "b", "p">>
             THEN ImageIcon
           ELSE PageIcon

\* GetFileClass with the audio test before the video test
GetFileClassAudioFirst(f) ==
  IF f.IsDir THEN "directory"
  ELSE LET ext == ToLower(Ext(f.Name))
       IN  IF HasPrefix(f.MimeType, <<"a", "u", "d", "i", "o", "/">>) \/ ext = <<".", "m", "p", "3">> \/ ext = <<".", "w", "a", "v">> \/ ext = <<".", "f", "l", "a", "c">>
                \/ ext = <<".", "a", "a", "c">> \/ ext = <<".", "o", "g", "g">> \/ ext = <<".", "m", "4", "a">>
             THEN "audio-file"
           ELSE IF HasPrefix(f.MimeType, <<"v", "i", "d", "e", "o", "/">>) \/ ext = <<".", "m", "p", "4">> \/ ext = <<".", "a", "v", "i">> \/ ext = <<".", "m", "k", "v">>
                \/ ext = <<".", "m", "o", "v">> \/ ext = <<".", "w", "m", "v">> \/ ext = <<".", "f", "l", "v">> \/ ext = <<".", "w", "e", "b", "m">>
             THEN "video-file"
           ELSE IF HasPrefix(f.MimeType, <<"i", "m", "a", "g", "e", "/">>) \/ ext = <<".", "j", "p", "g">> \/ ext = <<".", "j", "p", "e", "g">> \/ ext = <<".", "p", "n", "g">>
                \/ ext = <<".", "g", "i", "f">> \/ ext = <<".", "b", "m", "p">> \/ ext = <<".", "w", "e", "b", "p">>
             THEN "image-file"
           ELSE ""

\* f.GetFileClass()
GetFileClass(f) ==
  IF f.IsDir THEN "directory"
  ELSE LET ext == ToLower(Ext(f.Name))
       IN  IF HasPrefix(f.MimeType, <<"v", "i", "d", "e", "o", "/">>) \/ ext = <<".", "m", "p", "4">> \/ ext = <<".", "a", "v", "i">> \/ ext = <<".", "m", "k", "v">>
                \/ ext = <<".", "m", "o", "v">> \/ ext = <<".", "w", "m", "v">> \/ ext = <<".", "f", "l", "v">> \/ ext = <<".", "w", "e", "b", "m">>
             THEN "video-file"
           ELSE IF HasPrefix(f.MimeType, <<"a", "u", "d", "i", "o", "/">>) \/ ext = <<".", "m", "p", "3">> \/ ext = <<".", "w", "a", "v">> \/ ext = <<".", "f", "l", "a", "c">>
                \/ ext = <<".", "a", "a", "c">> \/ ext = <<".", "o", "g", "g">> \/ ext = <<".", "m", "4", "a">>
             THEN "audio-file"
           ELSE IF HasPrefix(f.MimeType, <<"i", "m", "a", "g", "e", "/">>) \/ ext = <<".", "j", "p", "g">> \/ ext = <<".", "j", "p", "e", "g">> \/ ext = <<".", "p", "n", "g">>
                \/ ext = <<".", "g", "i", "f">> \/ ext = <<".", "b", "m", "p">> \/ ext = <<".", "w", "e", "b", "p">>
             THEN "image-file"
           ELSE ""

\* the names and MIME types of the records the two methods are called on
RecordNames ==
  { <<"a", ".", "m", "p", "4">>,
    <<"a", ".", "M", "K", "V">>,
    <<"a", ".", "m", "p", "3">>,
    <<"a", ".", "O", "g", "g">>,
    <<"a", ".", "p", "n", "g">>,
    <<"a", ".", "J", "P", "E", "G">>,
    <<"a", ".", "t", "x", "t">>,
    <<"a">>,
    <<"m", "p", "4">>,
    <<".", "m", "p", "3">>,
    <<"a", ".", "w", "e", "b", "m">>,
    <<"a", ".", "w", "e", "b", "p">> }

RecordMimeTypes ==
  { <<>>,
    <<"v", "i", "d", "e", "o", "/", "m", "p", "4">>,
    <<"a", "u", "d", "i", "o", "/", "m", "p", "e", "g">>,
    <<"i", "m", "a", "g", "e", "/", "p", "n", "g">>,
    <<"t", "e", "x", "t", "/", "p", "l", "a", "i", "n">>,
    <<"a", "p", "p", "l", "i", "c", "a", "t", "i", "o", "n", "/", "o", "c", "t", "e", "t", "-", "s", "t", "r", "e", "a", "m">>,
    <<"v", "i", "d", "e", "o">> }

\* the template calls both methods on a record
Classify(f) ==
  /\ probe' = [fn |-> "Classify", in |-> f,
               out |-> [icon |-> GetFileIcon(f), class |-> GetFileClass(f)]]
  /\ UNCHANGED <<rangeReq, config, fs, pc, rawPath, method, cleanPath, fullPath, fileInfo, status,
                 statusCode, headers, body, data, ops, logs, errKind, handles, valid, linkOf,
                 prev, peer>>

(***************************************************************************)
(* config.go: LoadConfig, CreateDefaultConfig, Config.Validate             *)
(***************************************************************************)
\* A configuration file is read as the scalars it gives under server.port,
\* server.host and media.directory, each <<>> when the key is absent; ok is
\* false for a text that is no YAML document.
ConfigFile(port, host, directory) ==
  [ok |-> TRUE, port |-> port, host |-> host, directory |-> directory]

\* yaml.Unmarshal(data, &config): an absent key leaves the zero value, a
\* port that is no integer is an error
Unmarshal(file) ==
  IF ~file.ok THEN [err |-> "yaml", config |-> <<>>]
  ELSE IF file.port # <<>> /\ ~ParseInt(file.port).ok THEN [err |-> "yaml", config |-> <<>>]
  ELSE [err    |-> "",
        config |-> <<[Port      |-> IF file.port = <<>> THEN 0 ELSE ParseInt(file.port).n,
                      Host      |-> file.host,
                      Directory |-> file.directory]>>]

\* yaml.Marshal(&config)
Marshal(c) == ConfigFile(Itoa(c.Port), c.Host, c.Directory)

\* Validate without the upper bound of the port
ValidateNoUpper(c, statErr) ==
  IF c.Port < 1 THEN "invalid port number"
  ELSE IF c.Host = <<>> THEN "host cannot be empty"
  ELSE IF c.Directory = <<>> THEN "media directory cannot be empty"
  ELSE IF statErr \notin {"", "ENOENT"} THEN "media directory is not accessible"
  ELSE ""

\* c.Validate(), statErr the outcome of os.Stat(c.Media.Directory); "" for
\* a nil error
Validate(c, statErr) ==
  IF c.Port < 1 \/ c.Port > 65535 THEN "invalid port number"
  ELSE IF c.Host = <<>> THEN "host cannot be empty"
  ELSE IF c.Directory = <<>> THEN "media directory cannot be empty"
  ELSE IF statErr \notin {"", "ENOENT"} THEN "media directory is not accessible"
  ELSE ""

DefaultHost == <<"0", ".", "0", ".", "0", ".", "0">>

DefaultDirectory == <<".", "/", "m", "e", "d", "i", "a">>

\* LoadConfig(configPath): readOk the outcome of os.ReadFile, file what it
\* read; the result is an error and no Config, or no error and a Config
LoadConfig(readOk, file, statErr) ==
  IF ~readOk THEN [err |-> "failed to read config file", config |-> <<>>]
  ELSE IF Unmarshal(file).err # "" THEN [err |-> "failed to parse config file", config |-> <<>>]
  ELSE LET c0 == Unmarshal(file).config[1]
           c1 == IF c0.Host = <<>> THEN [c0 EXCEPT !.Host = DefaultHost] ELSE c0
           c2 == IF c1.Port = 0 THEN [c1 EXCEPT !.Port = 8080] ELSE c1
           c3 == IF c2.Directory = <<>> THEN [c2 EXCEPT !.Directory = DefaultDirectory] ELSE c2
       IN  IF Validate(c3, statErr) # ""
             THEN [err |-> "configuration validation failed", config |-> <<>>]
             ELSE [err |-> "", config |-> <<c3>>]

\* the file CreateDefaultConfig(configPath) writes
DefaultConfigFile == Marshal([Port |-> 8080, Host |-> DefaultHost, Directory |-> DefaultDirectory])

\* what the configuration files give as port, host and directory
PortTexts ==
  { <<>>,
    <<"0">>,
    <<"1">>,
    <<"8", "0">>,
    <<"8", "0", "8", "0">>,
    <<"6", "5", "5", "3", "5">>,
    <<"6", "5", "5", "3", "6">>,
    <<"-", "1">>,
    <<"a", "b", "c">> }

HostTexts == { <<>>, <<"1", "2", "7", ".", "0", ".", "0", ".", "1">> }

DirectoryTexts == { <<>>, <<"/", "s", "r", "v">> }

StatErrors == {"", "ENOENT", "EACCES"}

\* the program loads a configuration file
LoadConfigFile(readOk, file, statErr) ==
  /\ probe' = [fn |-> "LoadConfig", in |-> [readOk |-> readOk, file |-> file, statErr |-> statErr],
               out |-> LoadConfig(readOk, file, statErr)]
  /\ UNCHANGED <<rangeReq, config, fs, pc, rawPath, method, cleanPath, fullPath, fileInfo, status,
                 statusCode, headers, body, data, ops, logs, errKind, handles, valid, linkOf,
                 prev, peer>>

\* the program writes the default configuration file and loads it
CreateAndLoad(statErr) ==
  /\ probe' = [fn |-> "CreateDefaultConfig",
               in |-> [readOk |-> TRUE, file |-> DefaultConfigFile, statErr |-> statErr],
               out |-> LoadConfig(TRUE, DefaultConfigFile, statErr)]
  /\ UNCHANGED <<rangeReq, config, fs, pc, rawPath, method, cleanPath, fullPath, fileInfo, status,
                 statusCode, headers, body, data, ops, logs, errKind, handles, valid, linkOf,
                 prev, peer>>

(***************************************************************************)
(* Config.IsValidMediaPath                                                 *)
(***************************************************************************)
\* IsValidMediaPath(requestPath) for Media.Directory dir; wdOk false when
\* the working directory cannot be read, which fails GetAbsMediaPath for a
\* relative directory.
IsValidMediaPath(dir, requestPath, wdOk) ==
  LET absMediaPath == Abs(dir, WorkDir)
      clean        == Clean(requestPath)
  IN  IF ~IsAbs(dir) /\ ~wdOk THEN [ok |-> FALSE, err |-> TRUE]
      ELSE IF clean = <<".">> \/ clean = <<"/">> THEN [ok |-> TRUE, err |-> FALSE]
      ELSE [ok  |-> HasPrefix(Abs(Join(absMediaPath, clean), WorkDir), absMediaPath),
            err |-> FALSE]

\* a call of IsValidMediaPath
CheckMediaPath(p) ==
  /\ pc = "idle"
  /\ \E wdOk \in (IF IsAbs(config.Directory) THEN {TRUE} ELSE BOOLEAN) :
       valid' = <<IsValidMediaPath(config.Directory, p, wdOk)>>
  /\ rawPath' = p
  /\ pc' = "checked"
  /\ UNCHANGED <<probe, rangeReq, config, fs, peer, method, cleanPath, fullPath, fileInfo, status, statusCode,
                 headers, body, data, ops,
                 logs, errKind, handles, linkOf, prev>>

(***************************************************************************)
(* The end of a request, and the client following a link of a listing      *)
(***************************************************************************)
EndRequest ==
  /\ pc \in {"done", "checked"}
  /\ pc' = "idle"
  /\ Fresh(<<>>, "", <<>>)
  /\ UNCHANGED <<probe, config, fs, handles, peer>>

\* The client requests the link of record i of the listing it was sent: the
\* request path is the percent-decoded EncodedPath.
RequestLink(i) ==
  /\ pc = "done"
  /\ data # <<>>
  /\ body = ListingBody
  /\ i \in DOMAIN data[1].Files
  /\ pc' = "cors"
  /\ Fresh(PathUnescape(data[1].Files[i].EncodedPath).s, "GET",
           Join(Abs(fullPath, WorkDir), data[1].Files[i].Name))
  /\ UNCHANGED <<probe, config, fs, handles, peer>>

Finish == EndRequest /\ UNCHANGED prev

FollowLink(i) == RequestLink(i) /\ UNCHANGED prev

\* the largest number of records of a listing
MaxFiles == Cardinality(fs)

\* the methods of the requests
Methods == {"GET", "HEAD", "POST", "OPTIONS"}

Next ==
  \/ \E p \in RequestPaths, m \in Methods : Receive(p, m)
  \/ CorsMiddleware
  \/ HandleResolve
  \/ HandleStat
  \/ ServeDirectory
  \/ ServeFileOpen
  \/ ServeFileContent
  \/ LoggingMiddleware
  \/ \E p \in RequestPaths : CheckMediaPath(p)
  \/ Finish
  \/ \E i \in 1..MaxFiles : FollowLink(i)

Spec == Init /\ [][Next]_vars

(***************************************************************************)
(* The same server, with the last error response kept in prev so that the  *)
(* error responses of two requests can be compared                         *)
(***************************************************************************)
FinishRemember == EndRequest /\ Remember

FollowLinkRemember(i) == RequestLink(i) /\ Remember

NextRemember ==
  \/ \E p \in RequestPaths, m \in Methods : Receive(p, m)
  \/ CorsMiddleware
  \/ HandleResolve
  \/ HandleStat
  \/ ServeDirectory
  \/ ServeFileOpen
  \/ ServeFileContent
  \/ LoggingMiddleware
  \/ \E p \in RequestPaths : CheckMediaPath(p)
  \/ FinishRemember
  \/ \E i \in 1..MaxFiles : FollowLinkRemember(i)

SpecRemember == Init /\ [][NextRemember]_vars

(***************************************************************************)
(* Two requests in flight.  net/http runs every handler in a goroutine of   *)
(* its own; each handler has its own r, w and locals, and they share the   *)
(* MediaServer (config, template) and the filesystem.  The variables pc to *)
(* linkOf are the state of the handler that takes the next step, peer is    *)
(* the state of the other one, and Switch hands the next step to the other. *)
(***************************************************************************)
\* the own state of the handler that takes the next step
Current ==
  [pc |-> pc, rawPath |-> rawPath, method |-> method, cleanPath |-> cleanPath,
   fullPath |-> fullPath, fileInfo |-> fileInfo, status |-> status, statusCode |-> statusCode,
   headers |-> headers, body |-> body, data |-> data, ops |-> ops, logs |-> logs,
   errKind |-> errKind, valid |-> valid, linkOf |-> linkOf, rangeReq |-> rangeReq]

\* the own state of a handler, but for cleanPath and fullPath
SwitchRest ==
  /\ peer' = Current
  /\ pc' = peer.pc
  /\ rawPath' = peer.rawPath
  /\ method' = peer.method
  /\ rangeReq' = peer.rangeReq
  /\ fileInfo' = peer.fileInfo
  /\ status' = peer.status
  /\ statusCode' = peer.statusCode
  /\ headers' = peer.headers
  /\ body' = peer.body
  /\ data' = peer.data
  /\ ops' = peer.ops
  /\ logs' = peer.logs
  /\ errKind' = peer.errKind
  /\ valid' = peer.valid
  /\ linkOf' = peer.linkOf
  /\ UNCHANGED <<probe, config, fs, handles, prev>>

\* the own state of a handler, but for fullPath
SwitchBut == SwitchRest /\ cleanPath' = peer.cleanPath

\* cleanPath kept in the MediaServer, one for all handlers
SwitchSharedClean == SwitchRest /\ fullPath' = peer.fullPath /\ UNCHANGED cleanPath

\* fullPath kept in the MediaServer, one for all handlers
SwitchSharedPath == SwitchBut /\ UNCHANGED fullPath

\* the scheduler lets the other handler run
Switch == SwitchBut /\ fullPath' = peer.fullPath

\* the request paths and methods of the two requests
ConcurrentPaths ==
  { <<"/", "s", "u", "b">>,
    <<"/", "a", ".", "t", "x", "t">>,
    <<"/", "%", "z", "z">>,
    <<".", ".">> }

ConcurrentMethods == {"GET", "HEAD"}

NextConcurrent ==
  \/ \E p \in ConcurrentPaths, m \in ConcurrentMethods : Receive(p, m)
  \/ CorsMiddleware
  \/ HandleResolve
  \/ HandleStat
  \/ ServeDirectory
  \/ ServeFileOpen
  \/ ServeFileContent
  \/ LoggingMiddleware
  \/ Finish
  \/ Switch

SpecConcurrent == Init /\ [][NextConcurrent]_vars

(***************************************************************************)
(* The server as Start sets it up: the ServeMux between the middleware and  *)
(* handleRequest, two requests in flight.                                   *)
(***************************************************************************)
\* the request paths: r.URL.Path as the server has decoded it from the
\* request line
ServerPaths ==
  { <<"/", "s", "u", "b">>,
    <<"/", "s", "u", "b", "/">>,
    <<"/", "/", "s", "u", "b">>,
    <<"/", "%", "2", "e", "/", "s", "u", "b">>,
    <<"/", "a", ".", "t", "x", "t">>,
    <<"/", "%", "2", "e", "/", "a", ".", "t", "x", "t">> }

NextServer ==
  \/ \E p \in ServerPaths, m \in ConcurrentMethods : Receive(p, m)
  \/ CorsMiddleware
  \/ ServeMuxRedirect
  \/ ServeMuxHandle
  \/ HandleStat
  \/ ServeDirectory
  \/ ServeFileOpen
  \/ ServeFileContent
  \/ LoggingMiddleware
  \/ Finish
  \/ Switch

SpecServer == Init /\ [][NextServer]_vars

(***************************************************************************)
(* The functions taken by themselves: the two classification methods on a   *)
(* record, and the loading of a configuration file.                         *)
(***************************************************************************)
NextFunctions ==
  \/ \E n \in RecordNames, d \in BOOLEAN, t \in RecordMimeTypes :
       Classify([Name |-> n, IsDir |-> d, MimeType |-> t])
  \/ \E readOk \in BOOLEAN, port \in PortTexts, host \in HostTexts, directory \in DirectoryTexts,
        statErr \in StatErrors :
       LoadConfigFile(readOk, ConfigFile(port, host, directory), statErr)
  \/ \E statErr \in StatErrors :
       LoadConfigFile(TRUE, [ConfigFile(<<>>, <<>>, <<>>) EXCEPT !.ok = FALSE], statErr)
  \/ \E statErr \in StatErrors : CreateAndLoad(statErr)

SpecFunctions == Init /\ [][NextFunctions]_vars

(***************************************************************************)
(* Properties                                                              *)
(***************************************************************************)
\* p is the directory root or lies under it, component by component
Within(p, root) == p = root \/ HasPrefix(p, root \o <<"/">>)

\* the handler of the request has returned
Answered == pc \in {"handled", "done"}

\* the security check of the request in flight has been passed
CheckPassed == pc \in {"stat", "serveDirectory", "serveFile", "serveContent"} \/ ops # <<>>

\* C1: every request is answered 403 or makes filesystem calls (Stat,
\* ReadDir, Lstat, Open) only on the served root and on paths under it.
Containment ==
  status = 403 \/ \A i \in DOMAIN ops : Within(ops[i].path, AbsMediaDir)

\* C2: the check goes by path components: a candidate that is not the served
\* root and not under it, such as one in a sibling directory whose name
\* starts with the root's name, does not pass handleRequest's check and is
\* not valid for IsValidMediaPath.
ComponentWiseCheck ==
  /\ CheckPassed => Within(Abs(fullPath, WorkDir), AbsMediaDir)
  /\ (pc = "checked" /\ valid[1].ok) =>
        Within(Abs(Join(AbsMediaDir, Clean(rawPath)), WorkDir), AbsMediaDir)

\* the failures that come from the I/O system, not from the request path
IOFailures == {"InternalError", "DirectoryUnreadable", "OpenFailed"}

\* some ".." component of segs has fewer than depth + 1 normal components
\* before it that no earlier ".." has used up
RECURSIVE SurplusFrom(_, _)
SurplusFrom(segs, depth) ==
  IF segs = <<>> THEN FALSE
  ELSE IF Head(segs) = DotDot THEN depth = 0 \/ SurplusFrom(Tail(segs), depth - 1)
  ELSE IF Head(segs) = <<>> \/ Head(segs) = <<".">> THEN SurplusFrom(Tail(segs), depth)
  ELSE SurplusFrom(Tail(segs), depth + 1)

\* a rooted path with more ".." segments than normal segments before them
SurplusDotDot(p) == IsAbs(p) /\ SurplusFrom(Split(p), 0)

EtcPasswdRequest ==
  <<"/", ".", ".", "/", ".", ".", "/", "e", "t", "c", "/", "p", "a", "s", "s", "w", "d">>

\* C3, as claimed: a rooted request path with more ".." segments than normal
\* segments before them, such as /../../etc/passwd, is answered 403 (when it
\* decodes and no I/O call fails).
SurplusDotDotForbidden ==
  (pc = "done" /\ SurplusDotDot(rawPath) /\ errKind \notin {"MalformedPath"} \cup IOFailures)
     => status = 403

\* C3, amended: such a request is never answered 403.  The surplus ".." are
\* dropped at the root, so cleanPath has no ".." left, fullPath is the
\* served root or under it, every filesystem call is made there, and the
\* answer is 404 only when nothing exists at that path under the root.
SurplusDotDotResolvedInside ==
  (SurplusDotDot(rawPath) /\ pc \notin {"idle", "resolve", "checked"}) =>
     /\ status # 403
     /\ fullPath # <<>> =>
          /\ Within(Abs(fullPath, WorkDir), AbsMediaDir)
          /\ \A i \in DOMAIN Split(cleanPath) : Split(cleanPath)[i] # DotDot
     /\ \A i \in DOMAIN ops : Within(ops[i].path, AbsMediaDir)
     /\ status = 404 => ~\E n \in fs : n.path = Abs(fullPath, WorkDir)

\* C3 witness: /../../etc/passwd has been answered 404 after a Stat of
\* etc/passwd under the served root.
SurplusDotDotWitness ==
  /\ pc = "done"
  /\ rawPath = EtcPasswdRequest
  /\ status = 404
  /\ Len(ops) = 1
  /\ ops[1].path = AbsMediaDir \o <<"/", "e", "t", "c", "/", "p", "a", "s", "s", "w", "d">>

\* C4: a request for the percent-decoded EncodedPath of a listing record
\* reaches the filesystem entry the record was built from (when no I/O call
\* fails).
RoundTripLink ==
  (pc = "done" /\ linkOf # <<>> /\ errKind \notin IOFailures) =>
     /\ status = 200
     /\ fileInfo.path = linkOf

\* C5: in a listing the directories come first, each group is in
\* case-insensitive name order, and the order is the only one the sort can
\* give for this set of entries, whatever order they came in.
ListingOrderDetermined ==
  data # <<>> =>
    LET F == data[1].Files
    IN  /\ \A i, j \in DOMAIN F : (i < j /\ F[j].IsDir) => F[i].IsDir
        /\ \A i, j \in DOMAIN F :
             (i < j /\ F[i].IsDir = F[j].IsDir) =>
                ~StrLess(ToLower(F[j].Name), ToLower(F[i].Name))
        /\ \A G \in SortSlice(F) : G = F

\* C5 witness: a listing with directories and files, two of the files with
\* names that differ only in letter case.
ListingOrderWitness ==
  /\ data # <<>>
  /\ \E i, j \in DOMAIN data[1].Files :
       /\ i # j
       /\ ToLower(data[1].Files[i].Name) = ToLower(data[1].Files[j].Name)
  /\ \E i, j \in DOMAIN data[1].Files : data[1].Files[i].IsDir /\ ~data[1].Files[j].IsDir

\* the number of records of the listing that carry the name
RecordsNamed(name) == Cardinality({i \in DOMAIN data[1].Files : data[1].Files[i].Name = name})

\* entry.Info() of the child succeeded in this request
InfoRead(n) == \E i \in DOMAIN ops : ops[i].op = "Lstat" /\ ops[i].path = n.path /\ ops[i].err = ""

\* C6: no record of a listing has a name that begins with ".", be the child
\* a file or a directory, and every other child whose metadata was read has
\* exactly one record.
HiddenExcluded ==
  data # <<>> =>
    /\ \A i \in DOMAIN data[1].Files : Head(data[1].Files[i].Name) # "."
    /\ \A n \in Children(fs, Abs(fullPath, WorkDir)) :
         /\ Head(n.name) = "." => RecordsNamed(n.name) = 0
         /\ (Head(n.name) # "." /\ InfoRead(n)) => RecordsNamed(n.name) = 1

\* C6 witness: a listing of a directory with a hidden file, a hidden
\* directory and other children has been built.
HiddenExcludedWitness ==
  /\ data # <<>>
  /\ data[1].Files # <<>>
  /\ \E n, m \in Children(fs, Abs(fullPath, WorkDir)) :
       /\ Head(n.name) = "." /\ n.isDir /\ InfoRead(n)
       /\ Head(m.name) = "." /\ ~m.isDir /\ InfoRead(m)

\* some "%" of s is not followed by two hexadecimal digits
InvalidEscape(s) ==
  \E i \in DOMAIN s :
    /\ s[i] = "%"
    /\ i + 2 > Len(s) \/ ~ishex(s[i + 1]) \/ ~ishex(s[i + 2])

\* handleRequest was called for the request and is past the decoding of its
\* path (an OPTIONS request ends in corsMiddleware and never gets there)
Decoded ==
  \/ pc \in {"stat", "serveDirectory", "serveFile", "serveContent", "handled"}
  \/ pc = "done" /\ method # "OPTIONS"

\* C7: a request whose path does not decode is answered 400 and that is all:
\* no cleaned or joined path and no check of it, no filesystem call, no
\* listing, no open file.
MalformedIs400 ==
  (Decoded /\ InvalidEscape(rawPath)) =>
     /\ Answered
     /\ status = 400
     /\ errKind = "MalformedPath"
     /\ cleanPath = <<>>
     /\ fullPath = <<>>
     /\ ops = <<>>
     /\ data = <<>>
     /\ fileInfo = NoInfo
     /\ handles = 0

\* C7 witness: a request with an invalid escape has been answered.
MalformedWitness ==
  /\ pc = "done"
  /\ InvalidEscape(rawPath)
  /\ status = 400

\* C8: when os.Stat fails, the answer is 404 for not-exist and 500 for any
\* other error; no call follows the Stat, no listing is built and no file is
\* opened.
StatFailureResponse ==
  \A i \in DOMAIN ops :
    (ops[i].op = "Stat" /\ ops[i].err # "") =>
       /\ Answered
       /\ status = IF ops[i].err = "ENOENT" THEN 404 ELSE 500
       /\ Len(ops) = i
       /\ data = <<>>
       /\ handles = 0

\* C8 witness: a Stat under the served root has failed with an error other
\* than not-exist and the answer is 500.
StatFailureWitness ==
  /\ pc = "done"
  /\ Len(ops) = 1
  /\ ops[1].op = "Stat"
  /\ ops[1].err = "ENOTDIR"
  /\ Within(ops[1].path, AbsMediaDir)
  /\ status = 500

\* the enumeration of a directory or the opening of a file has failed
ReadOrOpenFailed ==
  \E i \in DOMAIN ops : ops[i].op \in {"ReadDir", "Open"} /\ ops[i].err # ""

\* C9, as claimed: after a failed ReadDir or Open the answer is 500, no
\* listing is rendered and none of Content-Type, Accept-Ranges,
\* Cache-Control, Content-Length, Content-Disposition is set.
NoFileHeaderAfterFailure ==
  ReadOrOpenFailed =>
     /\ status = 500
     /\ data = <<>>
     /\ DOMAIN headers \cap {"Content-Type", "Accept-Ranges", "Cache-Control",
                             "Content-Length", "Content-Disposition"} = {}

\* C9, amended: after a failed ReadDir or Open the answer is 500, no listing
\* is rendered, no file handle is held, and of the headers of a file response
\* Accept-Ranges, Cache-Control, Content-Length and Content-Disposition are
\* not set; Content-Type is set, to the text/plain of the error response.
NoSuccessOutputAfterFailure ==
  ReadOrOpenFailed =>
     /\ Answered
     /\ status = 500
     /\ data = <<>>
     /\ handles = 0
     /\ DOMAIN headers \cap {"Accept-Ranges", "Cache-Control",
                             "Content-Length", "Content-Disposition"} = {}
     /\ "Content-Type" \in DOMAIN headers
     /\ headers["Content-Type"] = [text |-> "text/plain; charset=utf-8", arg |-> <<>>]

\* C9 witness: os.Open has failed for a file whose Stat succeeded.
OpenFailedWitness ==
  /\ pc = "done"
  /\ Len(ops) = 2
  /\ ops[1].op = "Stat" /\ ops[1].err = ""
  /\ ops[2].op = "Open" /\ ops[2].err # ""
  /\ status = 500

\* C10: the body of an error response has no part filled in from the
\* request, the path or the underlying error, and is the body of the last
\* error response of the same kind, whatever request that one answered.
GenericErrorBody ==
  errKind # "" =>
     /\ status \in {400, 403, 404, 500}
     /\ body.args = <<>>
     /\ (prev # <<>> /\ prev[1].kind = errKind) => prev[1].body = body

\* C10 witness: a second request has ended in a Stat failure after an
\* earlier request ended in an internal error.
GenericErrorBodyWitness ==
  /\ pc = "done"
  /\ errKind = "InternalError"
  /\ ops # <<>>
  /\ prev # <<>>
  /\ prev[1].kind = "InternalError"

\* os.ReadDir of the requested directory succeeded
Enumerated == \E i \in DOMAIN ops : ops[i].op = "ReadDir" /\ ops[i].err = ""

\* entry.Info() of the child failed in this request
InfoFailed(n) == \E i \in DOMAIN ops : ops[i].op = "Lstat" /\ ops[i].path = n.path /\ ops[i].err # ""

\* the children of the requested directory that a listing has to show
Listable == {n \in Children(fs, Abs(fullPath, WorkDir)) : Head(n.name) # "." /\ ~InfoFailed(n)}

\* C11: once os.ReadDir has succeeded the request is answered 200 with a
\* listing, whichever children's metadata could not be read: the listing has
\* no record for a child whose Info() failed or whose name is hidden, and
\* exactly one record for every other child.
BadEntrySkipped ==
  Enumerated =>
     /\ Answered
     /\ status = 200
     /\ data # <<>>
     /\ \A n \in Children(fs, Abs(fullPath, WorkDir)) :
          RecordsNamed(n.name) = IF n \in Listable THEN 1 ELSE 0
     /\ Len(data[1].Files) = Cardinality(Listable)

\* C11 witness: a listing was sent for a directory in which Info() failed
\* for one child that is not hidden, and it has records for other children.
BadEntrySkippedWitness ==
  /\ Enumerated
  /\ body = ListingBody
  /\ data[1].Files # <<>>
  /\ \E n \in Children(fs, Abs(fullPath, WorkDir)) : Head(n.name) # "." /\ InfoFailed(n)

\* C12: a listing of the path "/" has no parent link; a listing of any other
\* cleaned path P has the parent link path.Dir(P), "/" when that is "."; and
\* the parent link, taken under the served root, is the root or under it.
ParentLink ==
  data # <<>> =>
    LET P      == data[1].Path
        parent == data[1].ParentPath
    IN  /\ P = <<"/">> => parent = <<>>
        /\ P # <<"/">> => parent = (IF Dir(P) = <<".">> THEN <<"/">> ELSE Dir(P))
        /\ parent # <<>> => Within(Abs(Join(config.Directory, parent), WorkDir), AbsMediaDir)

\* os.Open was called in this request
Opened == \E i \in DOMAIN ops : ops[i].op = "Open"

\* os.ReadDir was called in this request
Listed == \E i \in DOMAIN ops : ops[i].op = "ReadDir"

\* C13: when os.Stat has succeeded and the handler has returned, the
\* directory was enumerated exactly when the metadata says directory, the
\* file was opened exactly when the metadata says regular file, never both,
\* and a listing is sent as text/html; charset=utf-8.
DispatchByMetadata ==
  (Answered /\ fileInfo # NoInfo) =>
     /\ Listed <=> fileInfo.isDir
     /\ Opened <=> fileInfo.isRegular
     /\ ~(Listed /\ Opened)
     /\ data # <<>> =>
          /\ "Content-Type" \in DOMAIN headers
          /\ headers["Content-Type"] = [text |-> "text/html; charset=utf-8", arg |-> <<>>]

\* the response carries file content or a listing
ContentSent == body.text \in {"content of", "content of (cut)", ListingBody.text, BrokenListingBody.text}

\* C14: a request with a method other than GET and HEAD is answered 405 and
\* is sent no listing and no file content.
OtherMethods405 ==
  (pc = "done" /\ method \notin {"GET", "HEAD"}) =>
     /\ status = 405
     /\ ~ContentSent

\* C15: the server holds one open file handle while serveFile is between
\* os.Open and its return, and none in any other state, however the
\* streaming ended.
HandleRelease ==
  /\ handles = IF pc = "serveContent" THEN 1 ELSE 0
  /\ handles = Cardinality({i \in DOMAIN ops : ops[i].op = "Open" /\ ops[i].err = ""})
                - (IF Opened /\ pc \in {"handled", "done"} /\ ops[Len(ops)].err = "" THEN 1 ELSE 0)

\* C15 witness: serveFile has returned after the client went away in the
\* middle of the content, and no handle is open.
HandleReleaseWitness ==
  /\ pc = "handled"
  /\ Opened
  /\ body.text = "content of (cut)"
  /\ handles = 0

\* the headers of an http.Error response
ErrorHeaders ==
  SetHeader(SetHeader(CorsHeaders(NoHeaders), "Content-Type", "text/plain; charset=utf-8", <<>>),
            "X-Content-Type-Options", "nosniff", <<>>)

\* r is an answer to a request for the directory at abs, cleaned path clean,
\* by the outcomes of r's own ReadDir and Info calls
OwnListing(f, r, clean, abs) ==
  /\ Len(r.ops) >= 2
  /\ r.ops[2].op = "ReadDir"
  /\ r.ops[2].path = abs
  /\ IF r.ops[2].err # ""
       THEN /\ Len(r.ops) = 2
            /\ r.status = 500
            /\ r.headers = ErrorHeaders
            /\ r.body = [text |-> "Unable to read directory", args |-> <<>>]
            /\ r.data = <<>>
       ELSE LET entries == ReadDir(f, abs)
                bad     == {r.ops[i].path : i \in {j \in 3..Len(r.ops) : r.ops[j].err # ""}}
            IN  /\ SubSeq(r.ops, 3, Len(r.ops)) = InfoOps(entries, bad)
                /\ r.status = 200
                /\ r.headers = SetHeader(CorsHeaders(NoHeaders), "Content-Type",
                                         "text/html; charset=utf-8", <<>>)
                /\ r.body \in {ListingBody, BrokenListingBody}
                /\ r.data # <<>>
                /\ r.data[1].Path = clean
                /\ r.data[1].ParentPath = ParentPathOf(clean)
                /\ r.data[1].Files \in SortSlice(BuildFiles(clean, entries, bad))

\* r is an answer to a request for the file info at full, by the outcome of
\* r's own Open call
OwnFile(r, full, abs, info) ==
  /\ Len(r.ops) = 2
  /\ r.ops[2].op = "Open"
  /\ r.ops[2].path = abs
  /\ r.data = <<>>
  /\ IF r.ops[2].err # ""
       THEN /\ r.status = 500
            /\ r.headers = ErrorHeaders
            /\ r.body = [text |-> "Unable to open file", args |-> <<>>]
       ELSE \E o \in StreamOutcomes :
              LET answer == ServeContentAnswer(r.method, info, r.rangeReq, o,
                                               FileHeaders(CorsHeaders(NoHeaders), full, info))
              IN  /\ r.status = answer.status
                  /\ r.headers = answer.headers
                  /\ r.body = answer.body

\* r is what its request gets when it is handled alone, on this
\* configuration and the filesystem f: the answer its own path and method and the
\* outcomes of its own filesystem calls give
OwnResponseOn(f, r) ==
  LET decoded == QueryUnescape(r.rawPath)
      clean   == CleanPathOf(decoded.s)
      full    == Join(config.Directory, clean)
      abs     == Abs(full, WorkDir)
      st      == StatResult(f, abs)
  IN  IF ~decoded.ok
        THEN /\ r.status = 400
             /\ r.headers = ErrorHeaders
             /\ r.body = InvalidPathBody
             /\ r.ops = <<>>
             /\ r.data = <<>>
        ELSE \/ /\ ~IsAbs(config.Directory)
                /\ r.status = 500
                /\ r.headers = ErrorHeaders
                /\ r.body = InternalErrorBody
                /\ r.ops = <<>>
                /\ r.data = <<>>
             \/ /\ ~Contained(abs, AbsMediaDir)
                /\ r.status = 403
                /\ r.headers = ErrorHeaders
                /\ r.body = ForbiddenBody
                /\ r.ops = <<>>
                /\ r.data = <<>>
             \/ /\ Contained(abs, AbsMediaDir)
                /\ r.ops # <<>>
                /\ r.ops[1].op = "Stat"
                /\ r.ops[1].path = abs
                /\ r.ops[1].err \in {st.err, "EACCES"}
                /\ IF r.ops[1].err # ""
                     THEN /\ Len(r.ops) = 1
                          /\ r.status = IF r.ops[1].err = "ENOENT" THEN 404 ELSE 500
                          /\ r.headers = ErrorHeaders
                          /\ r.body = IF r.ops[1].err = "ENOENT" THEN NotFoundBody
                                      ELSE InternalErrorBody
                          /\ r.data = <<>>
                     ELSE IF st.info.isDir THEN OwnListing(f, r, clean, abs)
                          ELSE OwnFile(r, full, abs, st.info)

\* r is what its request gets when it is handled alone on the filesystem
\* as it is
OwnResponse(r) == OwnResponseOn(fs, r)

\* the answers of both requests are their own
OwnResponses ==
  /\ pc \in {"handled", "done"} => OwnResponse(Current)
  /\ peer.pc \in {"handled", "done"} => OwnResponse(peer)

\* C16: with two requests in flight and their steps interleaved in any
\* order, each request is answered as it is when handled alone, and no step
\* writes the configuration or the filesystem the handlers share.
RequestIndependence ==
  /\ []OwnResponses
  /\ [][config' = config /\ fs' = fs]_vars

\* C16 witness: a listing has been sent for one request while the handler of
\* the other, for another path, has its file open, and that other request
\* arrived before the listing was made.
RequestIndependenceWitness ==
  /\ pc = "handled"
  /\ data # <<>>
  /\ body = ListingBody
  /\ peer.pc = "serveContent"
  /\ peer.rawPath # rawPath
  /\ handles = 1

\* the filesystem calls that read and do not write
ReadCalls == {"Stat", "ReadDir", "Lstat", "Open"}

\* every filesystem call of the request so far is one that only reads
ReadOnlyCalls == \A i \in DOMAIN ops : ops[i].op \in ReadCalls

\* C17: whatever the method, the path and the outcome, a request makes only
\* filesystem calls that read (Stat, ReadDir, Lstat, read-only Open), and no
\* step of its handling changes the filesystem or the configuration.
ReadOnlyHandling ==
  /\ []ReadOnlyCalls
  /\ [][fs' = fs /\ config' = config]_vars

\* C17 witness: a POST request for a file has been handled to the end and
\* the file was opened and sent.
ReadOnlyHandlingWitness ==
  /\ pc = "done"
  /\ method = "POST"
  /\ Opened
  /\ status = 200
  /\ body.text = "content of"

\* C18: a filesystem call is made only after the path was decoded and
\* cleaned and the joined path passed the check against the absolute served
\* root; before that, and in a request answered 400 or 403, no call is made.
CheckBeforeAccess ==
  /\ pc \in {"cors", "resolve"} => ops = <<>>
  /\ status \in {400, 403} => ops = <<>>
  /\ ops # <<>> =>
       /\ ~InvalidEscape(rawPath)
       /\ cleanPath = CleanPathOf(QueryUnescape(rawPath).s)
       /\ fullPath = Join(config.Directory, cleanPath)
       /\ HasPrefix(Abs(fullPath, WorkDir), AbsMediaDir)
       /\ \A i \in DOMAIN ops : HasPrefix(ops[i].path, AbsMediaDir)

\* C18 witness: a request whose path cleans to one above the served root was
\* answered 403 without a filesystem call.
CheckBeforeAccessWitness ==
  /\ pc = "done"
  /\ status = 403
  /\ cleanPath = <<".", ".">>
  /\ ops = <<>>

\* what the request gave to the logger apart from the request record
Notices == {i \in DOMAIN logs : logs[i].text # RequestLogFormat}

\* C19: a request in which a path failed to decode, a Stat, ReadDir or Open
\* failed, or the metadata of a directory entry could not be read, has given
\* the logger a notice of it, and for a failed Stat (other than not-exist),
\* ReadDir or Open the notice carries the error.
FailureLogged ==
  pc = "done" =>
     /\ errKind = "MalformedPath" => Notices # {}
     /\ \A i \in DOMAIN ops :
          ops[i].err # "" =>
            \E j \in Notices :
              (ops[i].op = "Lstat" \/ ops[i].err = "ENOENT") \/ <<ops[i].err>> \in Range(logs[j].args)

\* the request log records written for the request
RequestRecords == {i \in DOMAIN logs : logs[i].text = RequestLogFormat}

\* C20: a request that has been answered has exactly one request log
\* record, the last thing logged for it, and none before it is answered.
OneRequestLogRecord ==
  /\ pc = "done" => /\ Cardinality(RequestRecords) = 1
                    /\ Len(logs) \in RequestRecords
  /\ pc \notin {"done"} => RequestRecords = {}

\* the extensions that make a record a video, an audio file, an image
VideoExtensions ==
  {<<".", "m", "p", "4">>, <<".", "a", "v", "i">>, <<".", "m", "k", "v">>, <<".", "m", "o", "v">>, <<".", "w", "m", "v">>, <<".", "f", "l", "v">>, <<".", "w", "e", "b", "m">>}

AudioExtensions ==
  {<<".", "m", "p", "3">>, <<".", "w", "a", "v">>, <<".", "f", "l", "a", "c">>, <<".", "a", "a", "c">>, <<".", "o", "g", "g">>, <<".", "m", "4", "a">>}

ImageExtensions ==
  {<<".", "j", "p", "g">>, <<".", "j", "p", "e", "g">>, <<".", "p", "n", "g">>, <<".", "g", "i", "f">>, <<".", "b", "m", "p">>, <<".", "w", "e", "b", "p">>}

\* the category of a record by the fixed precedence: directory, video,
\* audio, image, generic
CategoryOf(f) ==
  LET ext == ToLower(Ext(f.Name))
  IN  IF f.IsDir THEN "directory"
      ELSE IF ext \in VideoExtensions \/ HasPrefix(f.MimeType, <<"v", "i", "d", "e", "o", "/">>) THEN "video"
      ELSE IF ext \in AudioExtensions \/ HasPrefix(f.MimeType, <<"a", "u", "d", "i", "o", "/">>) THEN "audio"
      ELSE IF ext \in ImageExtensions \/ HasPrefix(f.MimeType, <<"i", "m", "a", "g", "e", "/">>) THEN "image"
      ELSE "generic"

\* the icon and the CSS class that stand for a category
IconOf ==
  [directory |-> FolderIcon, video |-> VideoIcon, audio |-> AudioIcon, image |-> ImageIcon,
   generic |-> PageIcon]

ClassOf ==
  [directory |-> "directory", video |-> "video-file", audio |-> "audio-file",
   image |-> "image-file", generic |-> ""]

\* C21: for every record GetFileIcon and GetFileClass report the category
\* the precedence directory, video, audio, image, generic gives (by IsDir,
\* then by lower-cased extension or MIME prefix), and so both the same one.
FileTypePrecedence ==
  probe.fn = "Classify" =>
    /\ probe.out.icon = IconOf[CategoryOf(probe.in)]
    /\ probe.out.class = ClassOf[CategoryOf(probe.in)]

\* C21: a record with an audio extension and a video MIME type is classed
\* as a video, and a directory with a video extension as a directory.
FileTypePrecedenceWitness ==
  /\ probe.fn = "Classify"
  /\ \/ /\ ~probe.in.IsDir
        /\ ToLower(Ext(probe.in.Name)) \in AudioExtensions
        /\ HasPrefix(probe.in.MimeType, <<"v", "i", "d", "e", "o", "/">>)
        /\ probe.out.class = "video-file"
        /\ probe.out.icon = VideoIcon
     \/ /\ probe.in.IsDir
        /\ ToLower(Ext(probe.in.Name)) \in VideoExtensions
        /\ probe.out.class = "directory"
        /\ probe.out.icon = FolderIcon

\* http.ServeContent has answered for the open regular file
ContentServed ==
  /\ Answered
  /\ Opened
  /\ ops[Len(ops)].err = ""
  /\ fileInfo.isRegular

\* C22: a response that streams a file (200 or 206) carries the Content-Type
\* of the path's extension, application/octet-stream when there is none for
\* it, Accept-Ranges: bytes, Cache-Control: public, max-age=3600 and
\* Content-Disposition: inline with the base name of the resolved path; with
\* 200 its Content-Length is the size the file's metadata gives.
FileResponseHeaders ==
  (ContentServed /\ status \in {200, 206}) =>
     LET detected == TypeByExtension(Ext(fullPath))
         resolved == Abs(fullPath, WorkDir)
     IN  /\ headers["Content-Type"] =
              [text |-> IF detected = "" THEN "application/octet-stream" ELSE detected, arg |-> <<>>]
         /\ headers["Accept-Ranges"] = [text |-> "bytes", arg |-> <<>>]
         /\ headers["Cache-Control"] = [text |-> "public, max-age=3600", arg |-> <<>>]
         /\ headers["Content-Disposition"] = [text |-> "inline; filename=", arg |-> Base(resolved)]
         /\ status = 200 =>
              headers["Content-Length"] = [text |-> "%d", arg |-> <<StatResult(fs, resolved).info.size>>]

\* C22: a file whose extension has no type is streamed whole, as
\* application/octet-stream.
FileResponseHeadersWitness ==
  /\ ContentServed
  /\ status = 200
  /\ rangeReq = <<>>
  /\ fileInfo.size > 0
  /\ TypeByExtension(Ext(fullPath)) = ""
  /\ body.text = "content of"

\* the offsets the ranges are formed from
MaxOffset == 5

\* the Range header for the bytes a to b
RangeText(a, b) == <<"b", "y", "t", "e", "s", "=">> \o Itoa(a) \o <<"-">> \o Itoa(b)

\* the bytes the client got, when the copy was not cut short and the method
\* is not HEAD, are length bytes from start on
BodyIs(start, length) ==
  body.text = "content of" => body.args = <<fileInfo.path, start, length>>

\* C23, as claimed: for a file of size S, no Range header gives 200 and the
\* S bytes; bytes=a-b with a <= b and a < S gives 206, Content-Range
\* bytes a-min(b,S-1)/S and min(b,S-1)-a+1 bytes; a start at or beyond S
\* gives 416.
RangeHandlingAsClaimed ==
  ContentServed =>
     LET S == fileInfo.size
         last(b) == IF b < S - 1 THEN b ELSE S - 1
     IN  /\ rangeReq = <<>> => status = 200 /\ BodyIs(0, S)
         /\ \A a, b \in 0..MaxOffset :
              rangeReq = RangeText(a, b) =>
                 /\ (a <= b /\ a < S) =>
                      /\ status = 206
                      /\ headers["Content-Range"] = [text |-> "bytes %d-%d/%d", arg |-> <<a, last(b), S>>]
                      /\ BodyIs(a, last(b) - a + 1)
                 /\ a >= S => status = 416

\* C23: as claimed for a file that is not empty, with Content-Range
\* bytes */S on the 416; for an empty file every range starts at or beyond
\* the end, the Range header is left aside and the answer is 200 with no
\* bytes.  Never is the answer to a range 500.
RangeHandling ==
  ContentServed =>
     LET S == fileInfo.size
         last(b) == IF b < S - 1 THEN b ELSE S - 1
     IN  /\ rangeReq = <<>> => status = 200 /\ BodyIs(0, S)
         /\ \A a, b \in 0..MaxOffset :
              rangeReq = RangeText(a, b) =>
                 /\ (a <= b /\ a < S) =>
                      /\ status = 206
                      /\ headers["Content-Range"] = [text |-> "bytes %d-%d/%d", arg |-> <<a, last(b), S>>]
                      /\ BodyIs(a, last(b) - a + 1)
                 /\ (a >= S /\ S > 0) =>
                      /\ status = 416
                      /\ headers["Content-Range"] = [text |-> "bytes */%d", arg |-> <<S>>]
                 /\ (a >= S /\ S = 0) => status = 200 /\ BodyIs(0, 0)
         /\ status # 500

\* C23: bytes=1-5 of a file of 2 bytes is answered 206 with the one byte
\* 1-1/2.
RangeHandlingWitness ==
  /\ ContentServed
  /\ fileInfo.size = 2
  /\ rangeReq = RangeText(1, 5)
  /\ status = 206
  /\ body = [text |-> "content of", args |-> <<fileInfo.path, 1, 1>>]

\* the request r has been through handleRequest's resolution
Resolved(r) ==
  /\ r.method # "OPTIONS"
  /\ r.pc \in {"stat", "serveDirectory", "serveFile", "serveContent", "handled", "done"}

\* the rejections of the resolution
Rejections == {"MalformedPath", "InternalError", "OutsideRoot"}

\* what the resolution gave for r: the rejection, or the resolved absolute
\* path and the normalized request path
ResolutionOf(r) ==
  IF r.errKind \in Rejections
    THEN [rejected |-> TRUE, status |-> r.status, body |-> r.body, abs |-> <<>>, clean |-> <<>>]
    ELSE [rejected |-> FALSE, status |-> 0, body |-> NoBody,
          abs |-> Abs(r.fullPath, WorkDir), clean |-> r.cleanPath]

NormalOf(raw) == CleanPathOf(QueryUnescape(raw).s)

\* no call of r met a failure that the filesystem's content does not
\* explain, and its response was written to the end
Undisturbed(r) ==
  /\ \A i \in DOMAIN r.ops :
       \/ r.ops[i].err = ""
       \/ r.ops[i].op = "Stat" /\ r.ops[i].err \in {"ENOENT", "ENOTDIR"}
  /\ r.errKind # "InternalError"
  /\ r.body.text \notin {BrokenListingBody.text, "content of (cut)"}

\* two answered requests with the same method and Range header, whose raw
\* paths decode and have the same normal form
SameNormalForm ==
  /\ pc = "done"
  /\ peer.pc = "done"
  /\ method = peer.method
  /\ rangeReq = peer.rangeReq
  /\ Undisturbed(Current)
  /\ Undisturbed(peer)
  /\ QueryUnescape(rawPath).ok
  /\ QueryUnescape(peer.rawPath).ok
  /\ NormalOf(rawPath) = NormalOf(peer.rawPath)

\* the two requests got the same response
SameResponse ==
  /\ status = peer.status
  /\ headers = peer.headers
  /\ body = peer.body
  /\ data = peer.data

\* r's path is in the ServeMux's canonical form
Canonical(r) == MuxCleanPath(r.rawPath) = r.rawPath

PortNumbers == {0 - 1, 0, 1, 80, 8080, 65535, 65536}

\* C25: LoadConfig returns an error and no Config, or a Config with a port
\* from 1 to 65535, a host and a directory that are not empty; in it a
\* missing or zero port is 8080, an empty host 0.0.0.0 and an empty
\* directory ./media; a port that is not 0 and is below 1 or above 65535 is
\* an error; and the file CreateDefaultConfig writes loads as port 8080,
\* host 0.0.0.0, directory ./media, when os.Stat of the directory succeeds
\* or says that it does not exist.
ConfigInvariants ==
  probe.fn \in {"LoadConfig", "CreateDefaultConfig"} =>
     LET file == probe.in.file
         out  == probe.out
     IN  /\ out.err # "" => out.config = <<>>
         /\ out.err = "" =>
              /\ Len(out.config) = 1
              /\ out.config[1].Port \in 1..65535
              /\ out.config[1].Host # <<>>
              /\ out.config[1].Directory # <<>>
              /\ file.port \in {<<>>, <<"0">>} => out.config[1].Port = 8080
              /\ file.host = <<>> => out.config[1].Host = <<"0", ".", "0", ".", "0", ".", "0">>
              /\ file.directory = <<>> => out.config[1].Directory = <<".", "/", "m", "e", "d", "i", "a">>
              /\ \A n \in PortNumbers : (n # 0 /\ file.port = Itoa(n)) => out.config[1].Port = n
              /\ file.host # <<>> => out.config[1].Host = file.host
              /\ file.directory # <<>> => out.config[1].Directory = file.directory
         /\ \A n \in PortNumbers :
              (file.port = Itoa(n) /\ n # 0 /\ (n < 1 \/ n > 65535)) => out.err # ""
         /\ (probe.fn = "CreateDefaultConfig" /\ probe.in.statErr \in {"", "ENOENT"}) =>
              /\ out.err = ""
              /\ out.config = <<[Port |-> 8080, Host |-> <<"0", ".", "0", ".", "0", ".", "0">>, Directory |-> <<".", "/", "m", "e", "d", "i", "a">>]>>

\* C25: a file without port and host loads with 8080 and 0.0.0.0, or the
\* file CreateDefaultConfig wrote loads without error.
ConfigInvariantsWitness ==
  /\ probe.fn \in {"LoadConfig", "CreateDefaultConfig"}
  /\ probe.out.err = ""
  /\ probe.out.config[1].Port = 8080
  /\ probe.out.config[1].Host = <<"0", ".", "0", ".", "0", ".", "0">>
  /\ \/ probe.fn = "CreateDefaultConfig"
     \/ probe.in.file.port = <<>> /\ probe.in.file.host = <<>>

\* C26: the status code in the log record of a request is the status code
\* the client was sent, also when the handler calls http.Error after body
\* bytes were written.
LoggedStatusIsSent ==
  \A i \in RequestRecords : logs[i].args[3] = <<status>>

\* the directory entry the followed link was made from, as the listing saw it
LinkedEntry == CHOOSE n \in Children(fs, Dir(linkOf)) : n.path = linkOf

\* C27: on an unchanged filesystem a request for the path of a listing
\* record that reaches the record's entry is dispatched as the record's
\* IsDir flag says: a listing for an IsDir record, the file for any other,
\* also for a symbolic link to a directory and for a dangling one.
ListingDispatchAgreement ==
  (Answered /\ linkOf # <<>> /\ Abs(fullPath, WorkDir) = linkOf /\ ops # <<>>
     /\ ops[1].err # "EACCES") =>
     IF LinkedEntry.isDir THEN Listed /\ ~Opened ELSE Opened /\ ~Listed

\* what the filesystem f has at the served root and under it
Inside(f) == {n \in f : Within(n.path, AbsMediaDir)}

\* the answer is the one the request gets on the filesystem as it is
AnsweredByFilesystem ==
  (Answered /\ method # "OPTIONS") => OwnResponse(Current)

\* C28: the answer to a request is the one it gets on the filesystem that
\* has only what lies under the served root: nothing outside the root has
\* a part in a response.
NonInterference ==
  (Answered /\ method # "OPTIONS") => OwnResponseOn(Inside(fs), Current)

\* some component of the path p starts with a dot and is not ..
HiddenComponent(p) ==
  \E i \in DOMAIN Split(p) : Hidden(Split(p)[i]) /\ Split(p)[i] # DotDot

\* C29: a request for a path under the served root with a component that
\* starts with a dot is resolved and dispatched like any other: it is not
\* turned away, it is answered as the filesystem has it, and when no call
\* fails a hidden directory is listed without its hidden children and a
\* hidden file, or a file in a hidden directory, is handed to
\* http.ServeContent.
HiddenServedByPath ==
  (Answered /\ method # "OPTIONS" /\ errKind # "InternalError" /\ HiddenComponent(cleanPath)
     /\ Within(Abs(fullPath, WorkDir), AbsMediaDir)) =>
     /\ ops # <<>>
     /\ ops[1].op = "Stat"
     /\ ops[1].path = Abs(fullPath, WorkDir)
     /\ OwnResponse(Current)
     /\ (\A i \in DOMAIN ops : ops[i].err = "") =>
          IF fileInfo.isDir
            THEN /\ status = 200
                 /\ data # <<>>
                 /\ {data[1].Files[i].Name : i \in DOMAIN data[1].Files}
                      = {n.name : n \in {c \in Children(fs, Abs(fullPath, WorkDir)) : ~Hidden(c.name)}}
            ELSE /\ Opened
                 /\ status \in {200, 206, 416}
                 /\ status = 200 /\ method # "HEAD" => body.text \in {"content of", "content of (cut)"}

\* C29: the hidden directory /.git is listed, with conf and without .h, or
\* the file conf in it is streamed.
HiddenServedByPathWitness ==
  /\ pc = "done"
  /\ HiddenComponent(cleanPath)
  /\ Within(Abs(fullPath, WorkDir), AbsMediaDir)
  /\ status = 200
  /\ \/ /\ data # <<>>
        /\ Len(data[1].Files) = 1
        /\ Cardinality(Children(fs, Abs(fullPath, WorkDir))) = 2
     \/ /\ body.text = "content of"
        /\ fileInfo.size > 0

====
